---- MODULE Spec2Model ----
(***************************************************************************)
(* A model of the CNU box-score scraper (src/src/cnu_scrape.py).           *)
(*                                                                         *)
(* Text is modelled character by character: a Python str is a sequence of  *)
(* one-character strings, so that str.split, str.strip, the in-operator,   *)
(* int() and the regular expressions are computed the way the code         *)
(* computes them.  An optional value (Python None or a value) is the empty *)
(* tuple or a one-element tuple.  A call's outcome is a record             *)
(* [exc, val]: exc = "" when the call returns val, and otherwise names the *)
(* exception that left the call.                                           *)
(***************************************************************************)
EXTENDS Integers, Sequences, FiniteSets, TLC

VARIABLES
    pc,          \* position of the running call / of scrape_range
    fn,          \* the name of the function under call
    arg,         \* its argument
    ret,         \* the outcome of the call, once pc is "return" or "raise"
    season_i,    \* scrape_range: how many seasons the season loop has taken
    games,       \* scrape_range: the game links of the season under work
    game_i,      \* scrape_range: how many of them the game loop has taken
    box_html,    \* scrape_range: the box page fetched last, by its place in ServedPages
    out_rows,    \* scrape_range: the accumulated rows
    out_file,    \* the CSV file at out_csv: None until it is written
    in_flight,   \* the URLs of the requests that await their response
    log          \* history: the delays, requests, responses and writes so far

scrape == <<season_i, games, game_i, box_html, out_rows, out_file, in_flight, log>>
vars == <<pc, fn, arg, ret, scrape>>

---------------------------------------------------------------------------
(* Optional values and call outcomes *)

None == <<>>
Some(x) == <<x>>
IsSome(o) == o # <<>>
Get(o) == o[1]

Return(v) == [exc |-> "", val |-> v]
Raise(e) == [exc |-> e, val |-> None]

\* The state of scrape_range while one of the other functions is under call
NotScraping ==
    /\ season_i = 0 /\ games = <<>> /\ game_i = 0 /\ box_html = 0
    /\ out_rows = <<>> /\ out_file = None /\ in_flight = <<>> /\ log = <<>>

---------------------------------------------------------------------------
(* Characters and Python's str primitives *)

DigitChars == <<"0","1","2","3","4","5","6","7","8","9">>
UpperChars == <<"A","B","C","D","E","F","G","H","I","J","K","L","M","N","O","P","Q","R","S","T","U","V","W","X","Y","Z">>
LowerChars == <<"a","b","c","d","e","f","g","h","i","j","k","l","m","n","o","p","q","r","s","t","u","v","w","x","y","z">>

IsDigit(c) == c \in {"0","1","2","3","4","5","6","7","8","9"}
DigitVal(c) == (CHOOSE i \in 1..10 : DigitChars[i] = c) - 1
IsSpace(c) == c \in {" ", "\t", "\n", "\r"}

\* str.lower() / str.upper(), one character
LowerChar(c) == IF \E i \in 1..26 : UpperChars[i] = c
                THEN LowerChars[CHOOSE i \in 1..26 : UpperChars[i] = c] ELSE c
UpperChar(c) == IF \E i \in 1..26 : LowerChars[i] = c
                THEN UpperChars[CHOOSE i \in 1..26 : LowerChars[i] = c] ELSE c
lower(s) == [i \in 1..Len(s) |-> LowerChar(s[i])]
upper(s) == [i \in 1..Len(s) |-> UpperChar(s[i])]

\* s[i:j] with 1-based inclusive bounds, empty when out of order
Slice(s, i, j) == IF i > j THEN <<>> ELSE SubSeq(s, i, j)

\* s.startswith(t, i): t occurs in s at position i
OccursAt(s, t, i) == /\ i >= 1
                     /\ i + Len(t) - 1 <= Len(s)
                     /\ \A k \in 1..Len(t) : s[i + k - 1] = t[k]

\* t, given in lower case, occurs in s at position i under re.IGNORECASE
OccursAtCI(s, t, i) == /\ i >= 1
                       /\ i + Len(t) - 1 <= Len(s)
                       /\ \A k \in 1..Len(t) : LowerChar(s[i + k - 1]) = t[k]

\* t in s
Contains(s, t) == \E i \in 1..(Len(s) - Len(t) + 1) : OccursAt(s, t, i)

\* The least element of a non-empty set of integers
Least(S) == CHOOSE i \in S : \A j \in S : i <= j
Greatest(S) == CHOOSE i \in S : \A j \in S : i >= j

\* s.find(t): the first position of t in s, 0 when there is none (Python's -1)
find(s, t) ==
    LET occ == {i \in 1..(Len(s) - Len(t) + 1) : OccursAt(s, t, i)}
    IN IF occ = {} THEN 0 ELSE Least(occ)

\* s.strip(chars): drop leading and trailing characters that are in chars
strip_chars(s, chars) ==
    LET keep == {i \in 1..Len(s) : s[i] \notin chars}
    IN IF keep = {} THEN <<>>
       ELSE Slice(s, Least(keep), Greatest(keep))
strip(s) == strip_chars(s, {" ", "\t", "\n", "\r"})

\* The end of the whitespace-free run that starts at i
RECURSIVE RunEnd(_, _)
RunEnd(s, i) == IF i = Len(s) \/ IsSpace(s[i + 1]) THEN i ELSE RunEnd(s, i + 1)

\* s.split(): the maximal runs of non-whitespace characters, in order
RECURSIVE split_from(_, _)
split_from(s, i) ==
    IF i > Len(s) THEN <<>>
    ELSE IF IsSpace(s[i]) THEN split_from(s, i + 1)
    ELSE <<Slice(s, i, RunEnd(s, i))>> \o split_from(s, RunEnd(s, i) + 1)
split(s) == split_from(s, 1)

\* s.split(sep) for a one-character separator
RECURSIVE split_on(_, _)
split_on(s, sep) ==
    LET at == {i \in 1..Len(s) : s[i] = sep}
    IN IF at = {} THEN <<s>>
       ELSE <<Slice(s, 1, Least(at) - 1)>> \o split_on(Slice(s, Least(at) + 1, Len(s)), sep)

\* sep.join(parts)
RECURSIVE join(_, _)
join(sep, parts) ==
    IF Len(parts) = 0 THEN <<>>
    ELSE IF Len(parts) = 1 THEN parts[1]
    ELSE parts[1] \o sep \o join(sep, Tail(parts))

\* The value of a run of decimal digits
RECURSIVE DigitsValue(_)
DigitsValue(d) ==
    IF Len(d) = 0 THEN 0
    ELSE 10 * DigitsValue(Slice(d, 1, Len(d) - 1)) + DigitVal(d[Len(d)])

\* int(tok) for a token without surrounding whitespace: an optional sign, then
\* decimal digits that single underscores may separate.  None models ValueError.
int_(tok) ==
    LET signed == Len(tok) > 0 /\ tok[1] \in {"+", "-"}
        body == IF signed THEN Tail(tok) ELSE tok
        wellFormed ==
            /\ Len(body) > 0
            /\ \A i \in 1..Len(body) : IsDigit(body[i]) \/ body[i] = "_"
            /\ IsDigit(body[1]) /\ IsDigit(body[Len(body)])
            /\ \A i \in 1..(Len(body) - 1) : ~(body[i] = "_" /\ body[i + 1] = "_")
        digits == SelectSeq(body, IsDigit)
    IN IF ~wellFormed THEN None
       ELSE IF signed /\ tok[1] = "-" THEN Some(0 - DigitsValue(digits))
       ELSE Some(DigitsValue(digits))

---------------------------------------------------------------------------
(* _parse_totals_line *)

\* The fewest whitespace-separated tokens of a well-formed totals line
MinTotalsTokens == 13

\* split_pair(tok): "made-attempted"; split at the first hyphen only
split_pair(tok) ==
    IF Contains(tok, <<"-">>)
    THEN LET h == find(tok, <<"-">>)
             a == int_(Slice(tok, 1, h - 1))
             b == int_(Slice(tok, h + 1, Len(tok)))
         IN IF IsSome(a) /\ IsSome(b) THEN <<a, b>> ELSE <<None, None>>
    ELSE LET v == int_(tok)
         IN IF IsSome(v) THEN <<v, None>> ELSE <<None, None>>

\* to_int(tok): the integer, or None when int() raises
to_int(tok) == int_(tok)

\* The mutant of parse_totals_line that lacks the token-count guard of line 82
parse_totals_line_NoGuard(line) ==
    LET tokens == split(line)
    IN IF Len(tokens) < 3 THEN Raise("IndexError")
       ELSE LET rest == [i \in 1..(IF Len(tokens) - 3 < 10 THEN Len(tokens) - 3 ELSE 10)
                            |-> to_int(tokens[3 + i])]
            IN IF Len(rest) < 10 THEN Return(None)
               ELSE Return(Some([
                        fgm |-> split_pair(tokens[1])[1], fga |-> split_pair(tokens[1])[2],
                        tpm |-> split_pair(tokens[2])[1], tpa |-> split_pair(tokens[2])[2],
                        ftm |-> split_pair(tokens[3])[1], fta |-> split_pair(tokens[3])[2],
                        orb |-> rest[1], drb |-> rest[2], trb |-> rest[3],
                        to |-> rest[7]]))

\* The mutant of parse_totals_line that reads turnovers from the assists column
parse_totals_line_WrongColumn(line) ==
    LET tokens == split(line)
    IN IF Len(tokens) < MinTotalsTokens THEN Return(None)
       ELSE LET rest == [i \in 1..10 |-> to_int(tokens[3 + i])]
            IN Return(Some([
                   fgm |-> split_pair(tokens[1])[1], fga |-> split_pair(tokens[1])[2],
                   tpm |-> split_pair(tokens[2])[1], tpa |-> split_pair(tokens[2])[2],
                   ftm |-> split_pair(tokens[3])[1], fta |-> split_pair(tokens[3])[2],
                   orb |-> rest[1], drb |-> rest[2], trb |-> rest[3],
                   to |-> rest[6]]))

\* _parse_totals_line(line).  tokens[0], tokens[1], tokens[2] raise IndexError on
\* a shorter list; tokens[3:13] is a slice and never raises.
parse_totals_line(line) ==
    LET tokens == split(line)
    IN IF Len(tokens) < MinTotalsTokens THEN Return(None)
       ELSE IF Len(tokens) < 3 THEN Raise("IndexError")
       ELSE LET rest == [i \in 1..(IF Len(tokens) - 3 < 10 THEN Len(tokens) - 3 ELSE 10)
                            |-> to_int(tokens[3 + i])]
            IN IF Len(rest) < 10 THEN Return(None)
               ELSE Return(Some([
                        fgm |-> split_pair(tokens[1])[1], fga |-> split_pair(tokens[1])[2],
                        tpm |-> split_pair(tokens[2])[1], tpa |-> split_pair(tokens[2])[2],
                        ftm |-> split_pair(tokens[3])[1], fta |-> split_pair(tokens[3])[2],
                        orb |-> rest[1], drb |-> rest[2], trb |-> rest[3],
                        to |-> rest[7]]))

---------------------------------------------------------------------------
(* parse_box_page, on the text stream soup.get_text("\n", strip=True) yields *)

S_VISITORS == <<"V","I","S","I","T","O","R","S">>
S_HOME_TEAM == <<"H","O","M","E"," ","T","E","A","M">>
S_totals == <<"t","o","t","a","l","s">>
S_score_by_periods == <<"s","c","o","r","e"," ","b","y"," ","p","e","r","i","o","d","s">>
S_1st == <<"1","s","t">>
S_2nd == <<"2","n","d">>
S_ot == <<"o","t">>
S_total == <<"t","o","t","a","l">>

\* The first position at or after i that holds no whitespace (Len(s) + 1 if none)
RECURSIVE SkipSpace(_, _)
SkipSpace(s, i) == IF i > Len(s) \/ ~IsSpace(s[i]) THEN i ELSE SkipSpace(s, i + 1)
\* The first position at or after i that holds no digit
RECURSIVE SkipDigits(_, _)
SkipDigits(s, i) == IF i > Len(s) \/ ~IsDigit(s[i]) THEN i ELSE SkipDigits(s, i + 1)
\* The first position at or after i that holds no dot
RECURSIVE SkipDots(_, _)
SkipDots(s, i) == IF i > Len(s) \/ s[i] # "." THEN i ELSE SkipDots(s, i + 1)
\* The last position of the line that position i is on (i - 1 for an empty line)
LineEnd(s, i) ==
    LET ends == {j \in i..Len(s) : s[j] = "\n"}
    IN IF ends = {} THEN Len(s) ELSE Least(ends) - 1

\* text.splitlines(), for "\n" line ends
RECURSIVE lines_from(_, _)
lines_from(s, i) ==
    IF i > Len(s) THEN <<>>
    ELSE <<Slice(s, i, LineEnd(s, i))>> \o lines_from(s, LineEnd(s, i) + 2)
splitlines(s) == lines_from(s, 1)

\* TEAM_HEADER_RE (line 71) at position i: ^(VISITORS|HOME TEAM): under MULTILINE
HeaderLabelAt(text, i) ==
    IF ~(i = 1 \/ text[i - 1] = "\n") THEN <<>>
    ELSE IF OccursAt(text, S_VISITORS \o <<":">>, i) THEN S_VISITORS
    ELSE IF OccursAt(text, S_HOME_TEAM \o <<":">>, i) THEN S_HOME_TEAM
    ELSE <<>>

\* TEAM_HEADER_RE.findall(text) from position pos on: the (label, rest) pairs of
\* the non-overlapping matches, left to right.  \s* runs over line ends, (.*)
\* is the remainder of the line it arrives on.
RECURSIVE team_headers_from(_, _)
team_headers_from(text, pos) ==
    LET starts == {i \in pos..Len(text) : HeaderLabelAt(text, i) # <<>>}
    IN IF starts = {} THEN <<>>
       ELSE LET i == Least(starts)
                label == HeaderLabelAt(text, i)
                j == SkipSpace(text, i + Len(label) + 1)
                e == LineEnd(text, j)
            IN <<[label |-> label, rest |-> Slice(text, j, e)]>>
                   \o team_headers_from(text, e + 1)

\* re.match(r"^\d+-\d+$", tok) (line 145)
IsRecordToken(tok) ==
    \E h \in 2..(Len(tok) - 1) :
        /\ tok[h] = "-"
        /\ \A k \in 1..Len(tok) : k # h => IsDigit(tok[k])

\* Lines 144-147: drop the trailing win-loss records, then strip " #."
RECURSIVE pop_records(_)
pop_records(tokens) ==
    IF Len(tokens) > 0 /\ IsRecordToken(tokens[Len(tokens)])
    THEN pop_records(Slice(tokens, 1, Len(tokens) - 1))
    ELSE tokens
clean_name(rest) == strip_chars(join(<<" ">>, pop_records(split(rest))), {" ", "#", "."})

\* names.get(label, ""): the last header of that label wins (line 147)
name_of(text, label) ==
    LET hs == team_headers_from(text, 1)
        mine == {k \in 1..Len(hs) : hs[k].label = label}
    IN IF mine = {} THEN <<>> ELSE clean_name(hs[Greatest(mine)].rest)

\* SCORE_BY_PERIODS_RE (lines 67-70) tried at position i of the text, letters
\* compared without case (IGNORECASE).  The result is None or the two rows.
\* Every part but the whitespace after "Total" can match in one way only; that
\* whitespace is taken greedily and given back one character at a time until
\* both rows match: a row is a non-empty rest of a line, and row 1 must be
\* followed by a line end.
RECURSIVE AfterOvertimes(_, _)
AfterOvertimes(text, p) ==
    LET q == SkipSpace(text, p)
    IN IF q > p /\ OccursAtCI(text, S_ot, q)
       THEN AfterOvertimes(text, SkipDigits(text, q + 2))
       ELSE p

score_rows_at(text, i) ==
    IF ~OccursAtCI(text, S_score_by_periods, i) THEN None
    ELSE LET p1 == i + Len(S_score_by_periods)
             q1 == SkipSpace(text, p1)
         IN IF ~(q1 > p1 /\ OccursAtCI(text, S_1st, q1)) THEN None
    ELSE LET p2 == q1 + 3
             q2 == SkipSpace(text, p2)
         IN IF ~(q2 > p2 /\ OccursAtCI(text, S_2nd, q2)) THEN None
    ELSE LET p3 == AfterOvertimes(text, q2 + 3)
             q3 == SkipSpace(text, p3)
         IN IF ~(q3 > p3 /\ OccursAtCI(text, S_total, q3)) THEN None
    ELSE LET pT == q3 + Len(S_total)
             qT == SkipSpace(text, pT)
             rowStarts == {r \in (pT + 1)..qT :
                              /\ r <= Len(text)
                              /\ text[r] # "\n"
                              /\ LineEnd(text, r) < Len(text)
                              /\ LineEnd(text, r) + 2 <= Len(text)
                              /\ text[LineEnd(text, r) + 2] # "\n"}
         IN IF rowStarts = {} THEN None
            ELSE LET r == Greatest(rowStarts)
                     e == LineEnd(text, r)
                 IN Some(<<Slice(text, r, e), Slice(text, e + 2, LineEnd(text, e + 2))>>)

\* SCORE_BY_PERIODS_RE.search(text): the leftmost match
score_rows(text) ==
    LET hits == {i \in 1..Len(text) : score_rows_at(text, i) # None}
    IN IF hits = {} THEN None ELSE score_rows_at(text, Least(hits))

\* [int(x) for x in re.findall(r"\d+", row)]: the maximal digit runs, in order
ints_of(row) ==
    LET starts == {i \in 1..Len(row) : IsDigit(row[i]) /\ (i = 1 \/ ~IsDigit(row[i - 1]))}
        nth(k) == CHOOSE i \in starts : Cardinality({j \in starts : j < i}) = k - 1
    IN [k \in 1..Cardinality(starts) |->
            DigitsValue(Slice(row, nth(k), SkipDigits(row, nth(k)) - 1))]

\* The mutant of side_score that reports a row without integers as 0 points
side_score_ZeroDefault(ints) ==
    IF Len(ints) > 0 THEN <<Some(ints[1]), Some(ints[Len(ints)])>> ELSE <<Some(0), Some(0)>>

\* Lines 150-159: (first, points) of one side from its row, both or neither
side_score(ints) ==
    IF Len(ints) > 0 THEN <<Some(ints[1]), Some(ints[Len(ints)])>> ELSE <<None, None>>

\* TOTALS_LINE_PATTERN.match(raw) (line 72): None, or group(1)
totals_rest(raw) ==
    LET a == SkipSpace(raw, 1)
        d == a + Len(S_totals)
        w == SkipDots(raw, d)
    IN IF OccursAtCI(raw, S_totals, a) /\ w >= d + 2 /\ w <= Len(raw) /\ IsSpace(raw[w])
       THEN Some(Slice(raw, SkipSpace(raw, w), Len(raw)))
       ELSE None

\* _extract_totals_from_block (lines 122-128): the first matching line decides
extract_totals_from_block(text_block) ==
    LET ls == splitlines(text_block)
        hits == {k \in 1..Len(ls) : totals_rest(ls[k]) # None}
    IN IF hits = {} THEN Return(None)
       ELSE parse_totals_line(Get(totals_rest(ls[Least(hits)])))

\* Lines 162-165
away_block(text) ==
    LET v == find(text, S_VISITORS \o <<":">>)
        h == find(text, S_HOME_TEAM \o <<":">>)
    IN IF v # 0 /\ h # 0 THEN Slice(text, v, h - 1) ELSE <<>>
home_block(text) ==
    LET h == find(text, S_HOME_TEAM \o <<":">>)
    IN IF h # 0 THEN Slice(text, h, Len(text)) ELSE <<>>

\* parse_box_page (lines 130-179)
parse_box_page(text) ==
    LET m == score_rows(text)
        away == IF IsSome(m) THEN side_score(ints_of(Get(m)[1])) ELSE <<None, None>>
        home == IF IsSome(m) THEN side_score(ints_of(Get(m)[2])) ELSE <<None, None>>
        away_totals == extract_totals_from_block(away_block(text))
        home_totals == extract_totals_from_block(home_block(text))
    IN IF away_totals.exc # "" THEN Raise(away_totals.exc)
       ELSE IF home_totals.exc # "" THEN Raise(home_totals.exc)
       ELSE Return(Some([
                away_name |-> name_of(text, S_VISITORS),
                home_name |-> name_of(text, S_HOME_TEAM),
                away_first_half |-> away[1],
                home_first_half |-> home[1],
                away_totals |-> away_totals.val,
                home_totals |-> home_totals.val,
                away_pts |-> away[2],
                home_pts |-> home[2]]))

---------------------------------------------------------------------------
(* urljoin of urllib.parse, for URLs without query, parameters and fragment *)

IsLetter(c) == \E i \in 1..26 : UpperChars[i] = c \/ LowerChars[i] = c
IsSchemeChar(c) == IsLetter(c) \/ IsDigit(c) \/ c \in {"+", "-", "."}

\* The position of the colon that ends the scheme of a URL, 0 when it has none
SchemeEnd(u) ==
    LET i == find(u, <<":">>)
    IN IF i > 1 /\ IsLetter(u[1]) /\ \A k \in 1..(i - 1) : IsSchemeChar(u[k])
       THEN i ELSE 0
SchemeOf(u) == lower(Slice(u, 1, SchemeEnd(u) - 1))

\* What follows "scheme://": the network location, and the path after it
HasNetloc(rest) == OccursAt(rest, <<"/", "/">>, 1)
NetlocEnd(rest) ==
    LET slashes == {i \in 3..Len(rest) : rest[i] = "/"}
    IN IF slashes = {} THEN Len(rest) ELSE Least(slashes) - 1
NetlocOf(rest) == IF HasNetloc(rest) THEN Slice(rest, 3, NetlocEnd(rest)) ELSE <<>>
PathOf(rest) == IF HasNetloc(rest) THEN Slice(rest, NetlocEnd(rest) + 1, Len(rest)) ELSE rest

\* The loop that resolves "." and ".." segments
RECURSIVE resolve_segments(_, _)
resolve_segments(segments, resolved) ==
    IF Len(segments) = 0 THEN resolved
    ELSE IF Head(segments) = <<".", ".">>
         THEN resolve_segments(Tail(segments), Slice(resolved, 1, Len(resolved) - 1))
    ELSE IF Head(segments) = <<".">> THEN resolve_segments(Tail(segments), resolved)
    ELSE resolve_segments(Tail(segments), Append(resolved, Head(segments)))

\* segments[1:-1] = filter(None, segments[1:-1])
drop_empty_inner(segments) ==
    IF Len(segments) <= 2 THEN segments
    ELSE <<segments[1]>>
         \o SelectSeq(Slice(segments, 2, Len(segments) - 1), LAMBDA g : g # <<>>)
         \o <<segments[Len(segments)]>>

\* scheme://netloc/path put together again (urlunparse)
urlunparse(scheme, netloc, path) ==
    scheme \o <<":", "/", "/">> \o netloc
        \o (IF Len(path) > 0 /\ path[1] # "/" THEN <<"/">> ELSE <<>>) \o path

urljoin(base, url) ==
    IF url = <<>> THEN base
    ELSE LET bscheme == SchemeOf(base)
             brest == Slice(base, SchemeEnd(base) + 1, Len(base))
             bnetloc == NetlocOf(brest)
             bpath == PathOf(brest)
             scheme == IF SchemeEnd(url) = 0 THEN bscheme ELSE SchemeOf(url)
             rest == Slice(url, SchemeEnd(url) + 1, Len(url))
             path == PathOf(rest)
             base_parts == LET bp == split_on(bpath, "/")
                           IN IF bp[Len(bp)] # <<>> THEN Slice(bp, 1, Len(bp) - 1) ELSE bp
             segments == IF Len(path) > 0 /\ path[1] = "/" THEN split_on(path, "/")
                         ELSE drop_empty_inner(base_parts \o split_on(path, "/"))
             resolved == resolve_segments(segments, <<>>)
                         \o (IF segments[Len(segments)] \in {<<".">>, <<".", ".">>}
                             THEN <<<<>>>> ELSE <<>>)
             joined == join(<<"/">>, resolved)
         IN IF scheme # bscheme THEN url
            ELSE IF NetlocOf(rest) # <<>> THEN urlunparse(scheme, NetlocOf(rest), path)
            ELSE IF path = <<>> THEN urlunparse(scheme, bnetloc, bpath)
            ELSE urlunparse(scheme, bnetloc, IF joined = <<>> THEN <<"/">> ELSE joined)

---------------------------------------------------------------------------
(* Calls of _parse_totals_line on bounded totals lines *)

\* The longest totals line, in tokens
MaxTokens == 14

\* The tokens of the totals line of the docstring (lines 76-78)
ExampleTokens ==
    <<<<"2","6","-","5","8">>,
      <<"7","-","1","8">>,
      <<"2","5","-","3","5">>,
      <<"1","0">>,
      <<"3","2">>,
      <<"4","2">>,
      <<"1","7">>,
      <<"8","4">>,
      <<"1","4">>,
      <<"9">>,
      <<"4">>,
      <<"6">>,
      <<"2","0","0">>>>

\* Tokens a page may hold in place of an expected one
TokenPool ==
    {<<"x">>,
     <<"7">>,
     <<"5","-","x">>,
     <<"-","5">>,
     <<"1","-","2","-","3">>,
     <<"3","-","-","4">>}

Separators == {<<" ">>, <<" ", "\t", " ">>}

BaseTokens(n) == [i \in 1..n |-> IF i <= 13 THEN ExampleTokens[i] ELSE <<"0">>]
EditToken(toks, p, t) == [i \in 1..Len(toks) |-> IF i = p THEN t ELSE toks[i]]

\* Lines of 0..MaxTokens tokens: the docstring's line, cut or extended, with
\* varying whitespace between the tokens; a line of fewer than 12 tokens has up
\* to one token replaced, a longer one up to two
TotalsLines ==
    {join(sep, EditToken(BaseTokens(n), p1, t1)) :
        n \in 0..11, p1 \in 1..11, t1 \in TokenPool, sep \in Separators}
    \cup
    {join(sep, EditToken(EditToken(BaseTokens(n), p1, t1), p2, t2)) :
        n \in 12..MaxTokens, p1 \in 1..MaxTokens, p2 \in 1..MaxTokens,
        t1 \in TokenPool, t2 \in TokenPool, sep \in Separators}

---------------------------------------------------------------------------
(* Calls of parse_box_page on bounded pages.  A page is given by its lines; *)
(* its text stream is those lines joined by line ends.                      *)

\* The VISITORS header line of a page, or no such line
VisitorHeaders ==
    {<<>>,
     <<<<"V","I","S","I","T","O","R","S",":"," ","C","h","r","i","s","t","o","p","h","e","r"," ","N","e","w","p","o","r","t"," ","2","2","-","5">>>>,
     <<<<"V","I","S","I","T","O","R","S",":"," ","V","a","."," ","W","e","s","l","e","y","a","n"," ","1","0","-","3"," ","4","-","1">>>>}

\* The HOME TEAM header line of a page, or no such line
HomeHeaders ==
    {<<>>,
     <<<<"H","O","M","E"," ","T","E","A","M",":"," ","C","N","U"," ","3","-","2">>>>,
     <<<<"H","O","M","E"," ","T","E","A","M",":"," ","#","4"," ","L","y","n","c","h","b","u","r","g">>>>}

\* The Totals line of one side: none, well-formed, 13 tokens with junk, 12, 2 and 0
\* tokens, and a line the pattern does not match (one dot only)
TotalsLinePool ==
    {<<>>,
     <<<<"T","o","t","a","l","s",".",".",".",".",".",".",".",".",".",".",".",".",".","."," ","2","6","-","5","8"," ","7","-","1","8"," ","2","5","-","3","5"," ","1","0"," ","3","2"," ","4","2"," ","1","7"," ","8","4"," ","1","4"," ","9"," ","4"," ","6"," ","2","0","0">>>>,
     <<<<"T","O","T","A","L","S",".","."," "," ","2","0","-","5","0"," ","5","-","x"," ","9"," ","8"," ","x"," ","3","0"," ","1","1"," ","6","0"," ","1","2"," ","1","5"," ","3"," ","2"," ","2","0","0">>>>,
     <<<<"T","o","t","a","l","s",".",".","."," ","2","6","-","5","8"," ","7","-","1","8"," ","2","5","-","3","5"," ","1","0"," ","3","2"," ","4","2"," ","1","7"," ","8","4"," ","1","4"," ","9"," ","4"," ","6">>>>,
     <<<<"T","o","t","a","l","s",".",".",".","."," ","x"," ","-">>>>,
     <<<<"T","o","t","a","l","s",".",".",".",".","."," ">>>>,
     <<<<"T","o","t","a","l","s","."," ","2","6","-","5","8"," ","7","-","1","8"," ","2","5","-","3","5"," ","1","0"," ","3","2"," ","4","2"," ","1","7"," ","8","4"," ","1","4"," ","9"," ","4"," ","6"," ","2","0","0">>>>}

\* The Score by Periods section: none, regular, with overtimes, with a second or
\* a first row that holds no integer, and with one row only
ScoreSections ==
    {<<>>,
     <<<<"S","c","o","r","e"," ","b","y"," ","P","e","r","i","o","d","s"," ","1","s","t"," ","2","n","d"," ","T","o","t","a","l">>,
       <<"V","a","."," ","W","e","s","l","e","y","a","n"," ","3","0"," ","3","5"," ","-"," ","6","5">>,
       <<"C","h","r","i","s","t","o","p","h","e","r"," ","N","e","w","p","o","r","t"," ","4","0"," ","3","0"," ","-"," ","7","0">>>>,
     <<<<"S","C","O","R","E"," ","B","Y"," ","P","E","R","I","O","D","S">>,
       <<"1","s","t"," ","2","n","d"," ","O","T"," ","O","T","2"," ","T","o","t","a","l">>,
       <<"V","i","s","i","t","o","r","s"," ","3","0"," ","3","5"," ","5"," ","8"," ","-"," ","7","8">>,
       <<"H","o","m","e"," ","4","0"," ","2","5"," ","5"," ","1","0"," ","-"," ","8","0">>>>,
     <<<<"S","c","o","r","e"," ","b","y"," ","P","e","r","i","o","d","s"," ","1","s","t"," ","2","n","d"," ","T","o","t","a","l">>,
       <<"V","a","."," ","W","e","s","l","e","y","a","n"," ","3","0"," ","3","5"," ","-"," ","6","5">>,
       <<"O","f","f","i","c","i","a","l","s",":"," ","S","m","i","t","h",","," ","J","o","n","e","s">>>>,
     <<<<"S","c","o","r","e"," ","b","y"," ","P","e","r","i","o","d","s"," ","1","s","t"," ","2","n","d"," ","T","o","t","a","l">>,
       <<"V","a","."," ","W","e","s","l","e","y","a","n"," ","3","0"," ","3","5"," ","-"," ","6","5">>>>,
     <<<<"S","c","o","r","e"," ","b","y"," ","P","e","r","i","o","d","s"," ","1","s","t"," ","2","n","d"," ","T","o","t","a","l">>,
       <<"N","o"," ","s","c","o","r","e"," ","r","e","p","o","r","t","e","d">>,
       <<"H","o","m","e"," ","4","0"," ","3","0"," ","-"," ","7","0">>>>}


BoxPages ==
    {pg \in [visitors : VisitorHeaders, away_totals : TotalsLinePool,
             home : HomeHeaders, home_totals : TotalsLinePool,
             score : ScoreSections, score_at : {"top", "bottom"}] :
        pg.score = <<>> => pg.score_at = "bottom"}

BoxText(pg) ==
    join(<<"\n">>,
         (IF pg.score_at = "top" THEN pg.score ELSE <<>>)
         \o pg.visitors \o pg.away_totals \o pg.home \o pg.home_totals
         \o (IF pg.score_at = "bottom" THEN pg.score ELSE <<>>))

---------------------------------------------------------------------------
(* The parser under call: one call of _parse_totals_line or parse_box_page *)

InitParse ==
    /\ pc = "call"
    /\ \/ fn = "parse_totals_line" /\ arg \in TotalsLines
       \/ fn = "parse_box_page" /\ arg \in BoxPages
    /\ ret = Return(None)
    /\ NotScraping

CallParseTotalsLine ==
    /\ pc = "call"
    /\ fn = "parse_totals_line"
    /\ ret' = parse_totals_line(arg)
    /\ pc' = IF ret'.exc = "" THEN "return" ELSE "raise"
    /\ UNCHANGED <<fn, arg, scrape>>

CallParseBoxPage ==
    /\ pc = "call"
    /\ fn = "parse_box_page"
    /\ ret' = parse_box_page(BoxText(arg))
    /\ pc' = IF ret'.exc = "" THEN "return" ELSE "raise"
    /\ UNCHANGED <<fn, arg, scrape>>

NextParse == CallParseTotalsLine \/ CallParseBoxPage

SpecParse == InitParse /\ [][NextParse]_vars

---------------------------------------------------------------------------
(* clean_date *)

\* The formats of line 55, in the order the loop tries them
DateFormats == <<"%m/%d/%y", "%m/%d/%Y">>

\* strptime's %m: 1[0-2]|0[1-9]|[1-9]
month_of(seg) ==
    IF Len(seg) = 1 /\ IsDigit(seg[1]) /\ seg[1] # "0" THEN Some(DigitVal(seg[1]))
    ELSE IF Len(seg) = 2 /\ seg[1] = "0" /\ IsDigit(seg[2]) /\ seg[2] # "0"
         THEN Some(DigitVal(seg[2]))
    ELSE IF Len(seg) = 2 /\ seg[1] = "1" /\ seg[2] \in {"0", "1", "2"}
         THEN Some(10 + DigitVal(seg[2]))
    ELSE None

\* strptime's %d: 3[0-1]|[1-2]\d|0[1-9]|[1-9]| [1-9]
day_of(seg) ==
    IF Len(seg) = 1 /\ IsDigit(seg[1]) /\ seg[1] # "0" THEN Some(DigitVal(seg[1]))
    ELSE IF Len(seg) = 2 /\ seg[1] \in {"0", " "} /\ IsDigit(seg[2]) /\ seg[2] # "0"
         THEN Some(DigitVal(seg[2]))
    ELSE IF Len(seg) = 2 /\ seg[1] \in {"1", "2"} /\ IsDigit(seg[2])
         THEN Some(10 * DigitVal(seg[1]) + DigitVal(seg[2]))
    ELSE IF Len(seg) = 2 /\ seg[1] = "3" /\ seg[2] \in {"0", "1"}
         THEN Some(30 + DigitVal(seg[2]))
    ELSE None

\* strptime's %y (\d\d; 0..68 is 2000.., 69..99 is 1969..) and %Y (\d\d\d\d)
year_of(seg, fmt) ==
    IF fmt = "%m/%d/%y"
    THEN IF Len(seg) = 2 /\ IsDigit(seg[1]) /\ IsDigit(seg[2])
         THEN Some(IF DigitsValue(seg) <= 68 THEN 2000 + DigitsValue(seg)
                   ELSE 1900 + DigitsValue(seg))
         ELSE None
    ELSE IF Len(seg) = 4 /\ \A i \in 1..4 : IsDigit(seg[i])
         THEN Some(DigitsValue(seg))
         ELSE None

IsLeap(y) == (y % 4 = 0 /\ y % 100 # 0) \/ y % 400 = 0
DaysInMonth(y, m) ==
    IF m = 2 THEN (IF IsLeap(y) THEN 29 ELSE 28)
    ELSE IF m \in {4, 6, 9, 11} THEN 30 ELSE 31

\* datetime(year, month, day): None models ValueError
datetime(y, m, d) ==
    IF y >= 1 /\ y <= 9999 /\ m >= 1 /\ m <= 12 /\ d >= 1 /\ d <= DaysInMonth(y, m)
    THEN Some([year |-> y, month |-> m, day |-> d])
    ELSE None

\* datetime.strptime(s, fmt): the whole of s must match; None models ValueError
strptime(s, fmt) ==
    LET parts == split_on(s, "/")
    IN IF Len(parts) # 3 THEN None
       ELSE IF month_of(parts[1]) = None \/ day_of(parts[2]) = None
               \/ year_of(parts[3], fmt) = None THEN None
       ELSE datetime(Get(year_of(parts[3], fmt)), Get(month_of(parts[1])), Get(day_of(parts[2])))

\* dt.strftime("%Y-%m-%d"), for the years 1000..9999
Pad2(n) == <<DigitChars[((n \div 10) % 10) + 1], DigitChars[(n % 10) + 1]>>
strftime(dt) ==
    Pad2(dt.year \div 100) \o Pad2(dt.year % 100) \o <<"-">> \o Pad2(dt.month)
        \o <<"-">> \o Pad2(dt.day)

\* Lines 58-59: the century adjustment of a two-digit year
adjust_year(dt, fmt) ==
    IF fmt = "%m/%d/%y" /\ dt.year < 1990
    THEN datetime(dt.year + 2000, dt.month, dt.day)
    ELSE Some(dt)

\* One pass of the loop body (lines 56-62): the text returned, or None when
\* ValueError sends the loop on to the next format
try_format(s, fmt) ==
    IF strptime(s, fmt) = None THEN None
    ELSE IF adjust_year(Get(strptime(s, fmt)), fmt) = None THEN None
    ELSE Some(strftime(Get(adjust_year(Get(strptime(s, fmt)), fmt))))

\* The mutant of clean_date that lets the last ValueError leave the call
clean_date_NoFallback(date_text) ==
    LET s == strip(date_text)
        ok == {k \in 1..Len(DateFormats) : try_format(s, DateFormats[k]) # None}
    IN IF ok = {} THEN Raise("ValueError")
       ELSE Return(try_format(s, DateFormats[Least(ok)]))

\* clean_date (lines 52-63)
clean_date(date_text) ==
    LET s == strip(date_text)
        ok == {k \in 1..Len(DateFormats) : try_format(s, DateFormats[k]) # None}
    IN IF ok = {} THEN Return(Some(s))
       ELSE Return(try_format(s, DateFormats[Least(ok)]))

---------------------------------------------------------------------------
(* Calls of clean_date on bounded date cells *)

\* Month, day and year texts of a date cell, valid and not
MonthTexts ==
    {<<"1">>,
     <<"3">>,
     <<"0","2">>,
     <<"2">>,
     <<"1","2">>,
     <<"1","3">>,
     <<"0">>}

\* Day texts
DayTexts ==
    {<<"1">>,
     <<"1","5">>,
     <<"2","9">>,
     <<"3","0">>,
     <<"3","1">>,
     <<"3","2">>,
     <<" ","5">>,
     <<"0">>}

\* Year texts: two digits on both sides of 68/69 and 89/90, four digits, others
YearTexts ==
    {<<"0","0">>,
     <<"1","2">>,
     <<"6","8">>,
     <<"6","9">>,
     <<"7","2">>,
     <<"7","5">>,
     <<"8","9">>,
     <<"9","0">>,
     <<"9","9">>,
     <<"2","0","1","2">>,
     <<"1","9","7","5">>,
     <<"1","9","8","9">>,
     <<"5">>,
     <<"1","2","3">>,
     <<"2","0","1","2","3">>}

\* Cells that hold no month/day/year date
OtherDateTexts ==
    {<<>>,
     <<"T","B","A">>,
     <<"3","/","1","5">>,
     <<"3","-","1","5","-","1","2">>,
     <<"3","/","1","5","/","1","2","/">>,
     <<"M","a","r","c","h"," ","1","5",","," ","2","0","1","2">>}


\* Whitespace around the text of a cell
Paddings == {<<<<>>, <<>>>>, <<<<" ">>, <<" ", "\n">>>>}

DateTexts ==
    {pad[1] \o m \o <<"/">> \o d \o <<"/">> \o y \o pad[2] :
        m \in MonthTexts, d \in DayTexts, y \in YearTexts, pad \in Paddings}
    \cup {pad[1] \o t \o pad[2] : t \in OtherDateTexts, pad \in Paddings}

InitDate ==
    /\ pc = "call"
    /\ fn = "clean_date"
    /\ arg \in DateTexts
    /\ ret = Return(None)
    /\ NotScraping

CallCleanDate ==
    /\ pc = "call"
    /\ fn = "clean_date"
    /\ ret' = clean_date(arg)
    /\ pc' = IF ret'.exc = "" THEN "return" ELSE "raise"
    /\ UNCHANGED <<fn, arg, scrape>>

NextDate == CallCleanDate

SpecDate == InitDate /\ [][NextDate]_vars

---------------------------------------------------------------------------
(* parse_game_result_rows.  A season page is given by its a elements in     *)
(* document order: each with its href attribute (None when it has none),    *)
(* its text nodes, and its nearest enclosing tr (None when it has none),    *)
(* a tr being the list of its td and th cells, each cell its text nodes.    *)

S_box_score == <<"b","o","x"," ","s","c","o","r","e">>

\* The decimal digits of a natural number (str.format of an int)
RECURSIVE str_(_)
str_(n) == IF n < 10 THEN <<DigitChars[n + 1]>>
           ELSE str_(n \div 10) \o <<DigitChars[(n % 10) + 1]>>

\* f"{y}-{y + 1}"
season_label(y) == str_(y) \o <<"-">> \o str_(y + 1)

\* BASE_SEASON_URL_TMPL.format(season=season)
season_url_of(season) ==
    <<"h","t","t","p","s",":","/","/","s","t","a","t","i","c",".","c","n","u","s","p","o","r","t","s",".","c","o","m","/","c","u","s","t","o","m","p","a","g","e","s","/","m","b","b","a","l","l","/","S","t","a","t","s","/">>
        \o season \o <<"/","t","e","a","m","s","t","a","t",".","h","t","m">>

\* get_text(strip=True): the text nodes, each stripped, the empty ones left out,
\* one after the other
RECURSIVE get_text_strip(_)
get_text_strip(strings) ==
    IF Len(strings) = 0 THEN <<>>
    ELSE strip(Head(strings)) \o get_text_strip(Tail(strings))

\* get_text(" "): the text nodes joined by the separator
get_text(strings, sep) == join(sep, strings)

\* The stripped text of every td and th of a row
cell_texts(row) == [i \in 1..Len(row) |-> strip(get_text(row[i], <<" ">>))]

\* soup.find_all("a", href=True)
find_all_a_href(html) == SelectSeq(html, LAMBDA a : a.href # None)

\* The a elements parse_game_result_rows makes an entry of
is_game_link(a) ==
    /\ lower(get_text_strip(a.strings)) = S_box_score
    /\ a.row # None
    /\ Len(cell_texts(Get(a.row))) >= 3

game_link(a, season_url) ==
    LET cells == cell_texts(Get(a.row))
        box_href == IF a.href # None THEN Get(a.href) ELSE <<>>
    IN <<cells[1], cells[2], cells[3], urljoin(season_url, box_href)>>

\* The mutant of parse_game_result_rows that looks at every a element, with or
\* without an href attribute
parse_game_result_rows_AnyAnchor(html, season_url) ==
    LET hits == SelectSeq(html, is_game_link)
    IN Return([i \in 1..Len(hits) |-> game_link(hits[i], season_url)])

\* parse_game_result_rows (lines 26-50)
parse_game_result_rows(html, season_url) ==
    LET hits == SelectSeq(find_all_a_href(html), is_game_link)
    IN Return([i \in 1..Len(hits) |-> game_link(hits[i], season_url)])

---------------------------------------------------------------------------
(* Calls of parse_game_result_rows on bounded season pages *)

\* The most a elements of a season page
MaxAnchors == 2

\* The first season of the modelled range
FirstYear == 2012

\* Text nodes of an a element: the link text, the link text in capitals after a
\* node of white space, the two words in two nodes, and another link
LinkStrings ==
    <<<<<<"B","o","x"," ","s","c","o","r","e">>>>,
      <<<<"\n">>, <<"B","O","X"," ","S","C","O","R","E"," ">>>>,
      <<<<"B","o","x"," ">>, <<"s","c","o","r","e">>>>,
      <<<<"R","e","c","a","p">>>>>>

\* href attributes: relative, none, empty, into another directory, absolute
Hrefs ==
    <<Some(<<"c","n","u","m","g","m","2","7",".","h","t","m">>),
      None,
      Some(<<>>),
      Some(<<".",".","/","2","0","1","1","-","2","0","1","2","/","g","1",".","h","t","m">>),
      Some(<<"h","t","t","p",":","/","/","o","t","h","e","r",".","o","r","g","/","b",".","h","t","m">>)>>

\* Rows of two, three and four cells
Row2 == <<<<<<"1","1","/","2","0","/","1","2">>>>, <<<<"B","o","x"," ","s","c","o","r","e">>>>>>
Row3 == <<<<<<"1","1","/","2","0","/","1","2">>>>, <<>>, <<<<"L"," ","7","8","-","8","0"," ","(","O","T",")">>>>>>
Row4 == <<<<<<" ","1","1","/","1","5","/","1","2"," ">>>>, <<<<"a","t">>, <<"L","y","n","c","h","b","u","r","g">>>>, <<<<"W"," ","7","0","-","6","5">>>>, <<<<"B","o","x"," ","s","c","o","r","e">>>>>>

Anchors ==
    [href : {Hrefs[1], Hrefs[2]},
     strings : {LinkStrings[k] : k \in 1..Len(LinkStrings)},
     row : {None, Some(Row2), Some(Row3)}]
    \cup [href : {Hrefs[k] : k \in 1..Len(Hrefs)},
          strings : {LinkStrings[1]},
          row : {Some(Row4)}]

RECURSIVE SeqsUpTo(_, _)
SeqsUpTo(S, n) ==
    IF n = 0 THEN {<<>>}
    ELSE SeqsUpTo(S, n - 1)
         \cup {Append(q, x) : q \in {r \in SeqsUpTo(S, n - 1) : Len(r) = n - 1}, x \in S}

SeasonPages == SeqsUpTo(Anchors, MaxAnchors)

InitLinks ==
    /\ pc = "call"
    /\ fn = "parse_game_result_rows"
    /\ arg \in [html : SeasonPages, season_url : {season_url_of(season_label(FirstYear))}]
    /\ ret = Return(None)
    /\ NotScraping

CallParseGameResultRows ==
    /\ pc = "call"
    /\ fn = "parse_game_result_rows"
    /\ ret' = parse_game_result_rows(arg.html, arg.season_url)
    /\ pc' = IF ret'.exc = "" THEN "return" ELSE "raise"
    /\ UNCHANGED <<fn, arg, scrape>>

NextLinks == CallParseGameResultRows

SpecLinks == InitLinks /\ [][NextLinks]_vars

---------------------------------------------------------------------------
(* The site scrape_range reads: what a fetch of a season page or of a box   *)
(* page can return.  Every fetch can also fail.                             *)

\* Season pages: one with two game links and a link that is none, in rows of
\* four and three cells, and one without a game link (no row, no href
\* attribute, two cells)
IndexPages ==
    {<<[href |-> Hrefs[1], strings |-> LinkStrings[1], row |-> Some(Row4)],
       [href |-> Hrefs[1], strings |-> LinkStrings[4], row |-> Some(Row4)],
       [href |-> Hrefs[4], strings |-> LinkStrings[2], row |-> Some(Row3)]>>,
     <<[href |-> Hrefs[1], strings |-> LinkStrings[1], row |-> None],
       [href |-> Hrefs[2], strings |-> LinkStrings[1], row |-> Some(Row3)],
       [href |-> Hrefs[5], strings |-> LinkStrings[1], row |-> Some(Row2)]>>}

\* Box pages: the tracked team at home, the tracked team as visitors in a game
\* with overtimes, a page that names it in lower case only, and a page that
\* names it on both sides and holds neither the visitors' totals nor the scores
ServedPages ==
    <<[visitors |-> <<<<"V","I","S","I","T","O","R","S",":"," ","V","a","."," ","W","e","s","l","e","y","a","n"," ","1","0","-","3"," ","4","-","1">>>>,
       away_totals |-> <<<<"T","o","t","a","l","s",".",".",".",".",".",".",".",".",".",".",".",".",".","."," ","2","6","-","5","8"," ","7","-","1","8"," ","2","5","-","3","5"," ","1","0"," ","3","2"," ","4","2"," ","1","7"," ","8","4"," ","1","4"," ","9"," ","4"," ","6"," ","2","0","0">>>>,
       home |-> <<<<"H","O","M","E"," ","T","E","A","M",":"," ","C","N","U"," ","3","-","2">>>>,
       home_totals |-> <<<<"T","o","t","a","l","s",".",".",".",".",".",".",".",".",".",".",".",".",".","."," ","3","0","-","6","0"," ","8","-","2","0"," ","1","2","-","1","5"," ","1","2"," ","3","0"," ","4","2"," ","1","5"," ","8","0"," ","1","6"," ","8"," ","3"," ","7"," ","2","0","0">>>>,
       score |-> <<<<"S","c","o","r","e"," ","b","y"," ","P","e","r","i","o","d","s"," ","1","s","t"," ","2","n","d"," ","T","o","t","a","l">>,
                   <<"V","a","."," ","W","e","s","l","e","y","a","n"," ","3","0"," ","3","5"," ","-"," ","6","5">>,
                   <<"C","h","r","i","s","t","o","p","h","e","r"," ","N","e","w","p","o","r","t"," ","4","0"," ","3","0"," ","-"," ","7","0">>>>,
       score_at |-> "bottom"],
      [visitors |-> <<<<"V","I","S","I","T","O","R","S",":"," ","C","h","r","i","s","t","o","p","h","e","r"," ","N","e","w","p","o","r","t"," ","2","2","-","5">>>>,
       away_totals |-> <<<<"T","o","t","a","l","s",".",".",".",".",".",".",".",".",".",".",".",".",".","."," ","3","0","-","6","0"," ","8","-","2","0"," ","1","2","-","1","5"," ","1","2"," ","3","0"," ","4","2"," ","1","5"," ","8","0"," ","1","6"," ","8"," ","3"," ","7"," ","2","0","0">>>>,
       home |-> <<<<"H","O","M","E"," ","T","E","A","M",":"," ","#","4"," ","L","y","n","c","h","b","u","r","g">>>>,
       home_totals |-> <<<<"T","o","t","a","l","s",".",".",".",".",".",".",".",".",".",".",".",".",".","."," ","2","6","-","5","8"," ","7","-","1","8"," ","2","5","-","3","5"," ","1","0"," ","3","2"," ","4","2"," ","1","7"," ","8","4"," ","1","4"," ","9"," ","4"," ","6"," ","2","0","0">>>>,
       score |-> <<<<"S","C","O","R","E"," ","B","Y"," ","P","E","R","I","O","D","S">>,
                   <<"1","s","t"," ","2","n","d"," ","O","T"," ","O","T","2"," ","T","o","t","a","l">>,
                   <<"V","i","s","i","t","o","r","s"," ","3","0"," ","3","5"," ","5"," ","8"," ","-"," ","7","8">>,
                   <<"H","o","m","e"," ","4","0"," ","2","5"," ","5"," ","1","0"," ","-"," ","8","0">>>>,
       score_at |-> "top"],
      [visitors |-> <<<<"V","I","S","I","T","O","R","S",":"," ","V","a","."," ","W","e","s","l","e","y","a","n"," ","1","0","-","3"," ","4","-","1">>>>,
       away_totals |-> <<<<"T","o","t","a","l","s",".",".",".",".",".",".",".",".",".",".",".",".",".","."," ","2","6","-","5","8"," ","7","-","1","8"," ","2","5","-","3","5"," ","1","0"," ","3","2"," ","4","2"," ","1","7"," ","8","4"," ","1","4"," ","9"," ","4"," ","6"," ","2","0","0">>>>,
       home |-> <<<<"H","O","M","E"," ","T","E","A","M",":"," ","C","n","u"," ","C","a","p","t","a","i","n","s"," ","3","-","2">>>>,
       home_totals |-> <<<<"T","o","t","a","l","s",".",".",".",".",".",".",".",".",".",".",".",".",".","."," ","3","0","-","6","0"," ","8","-","2","0"," ","1","2","-","1","5"," ","1","2"," ","3","0"," ","4","2"," ","1","5"," ","8","0"," ","1","6"," ","8"," ","3"," ","7"," ","2","0","0">>>>,
       score |-> <<<<"S","c","o","r","e"," ","b","y"," ","P","e","r","i","o","d","s"," ","1","s","t"," ","2","n","d"," ","T","o","t","a","l">>,
                   <<"V","a","."," ","W","e","s","l","e","y","a","n"," ","3","0"," ","3","5"," ","-"," ","6","5">>,
                   <<"C","n","u"," ","C","a","p","t","a","i","n","s"," ","4","0"," ","3","0"," ","-"," ","7","0">>>>,
       score_at |-> "bottom"],
      [visitors |-> <<<<"V","I","S","I","T","O","R","S",":"," ","C","h","r","i","s","."," ","N","e","w","p","o","r","t"," ","J","V">>>>,
       away_totals |-> <<>>,
       home |-> <<<<"H","O","M","E"," ","T","E","A","M",":"," ","C","N","U"," ","3","-","2">>>>,
       home_totals |-> <<<<"T","o","t","a","l","s",".",".",".",".",".",".",".",".",".",".",".",".",".","."," ","3","0","-","6","0"," ","8","-","2","0"," ","1","2","-","1","5"," ","1","2"," ","3","0"," ","4","2"," ","1","5"," ","8","0"," ","1","6"," ","8"," ","3"," ","7"," ","2","0","0">>>>,
       score |-> <<>>,
       score_at |-> "bottom"]>>

\* The date cells of the served season pages
DateCells ==
    UNION {{cell_texts(Get(html[i].row))[1] : i \in {j \in 1..Len(html) : html[j].row # None}} :
              html \in IndexPages}

\* date_iso = clean_date(date_text), for each of the served date cells
CleanDates == [date_text \in DateCells |-> clean_date(date_text)]

\* p = parse_box_page(box_html), for each of the served pages
ParsedPages == [k \in 1..Len(ServedPages) |-> parse_box_page(BoxText(ServedPages[k]))]

---------------------------------------------------------------------------
(* scrape_range *)

\* The most seasons of a range
NumYears == 2

\* The default of sleep_sec, in tenths of a second
DefaultSleep == 6

LastYear == FirstYear + NumYears - 1

\* range(start_year, end_year + 1)
years(start_year, end_year) ==
    [i \in 1..(IF end_year >= start_year THEN end_year - start_year + 1 ELSE 0)
        |-> start_year + i - 1]

\* seasons (line 190)
seasons(start_year, end_year) ==
    [i \in 1..Len(years(start_year, end_year))
        |-> season_label(years(start_year, end_year)[i])]

fieldnames ==
    <<"season", "date", "home", "opponent", "location_text", "result_text",
      "cnu_pts", "opp_pts",
      "cnu_fgm", "cnu_fga", "cnu_orb", "cnu_drb", "cnu_trb", "cnu_to",
      "opp_fgm", "opp_fga", "opp_orb", "opp_drb", "opp_trb", "opp_to",
      "cnu_first_half", "opp_first_half", "ot", "box_url">>

cname_candidates ==
    <<<<"C","h","r","i","s","t","o","p","h","e","r"," ","N","e","w","p","o","r","t">>,
      <<"C","h","r","i","s","."," ","N","e","w","p","o","r","t">>,
      <<"C","N","U">>,
      <<"C","h","r","i","s"," ","N","e","w","p","o","r","t">>>>

\* The mutant of is_cnu that compares without regard to case
is_cnu_AnyCase(name) ==
    \E k \in 1..Len(cname_candidates) : Contains(lower(name), lower(cname_candidates[k]))

\* any(x in name for x in cname_candidates)
is_cnu(name) == \E k \in 1..Len(cname_candidates) : Contains(name, cname_candidates[k])

\* tot.get(key) if tot else None
stat(tot, key) == IF tot # None THEN Get(tot)[key] ELSE None

\* ot_flag (line 242)
ot_flag(result_text, location_text) ==
    IF \/ Contains(upper(result_text), <<"O", "T">>)
       \/ Contains(IF location_text # <<>> THEN upper(location_text) ELSE <<>>, <<"O", "T">>)
    THEN 1 ELSE 0

\* The mutant of game_row that reads the opponent's points from the tracked
\* team's side
game_row_SameSide(season, game, p, is_home_cnu) ==
    LET cnu_tot == IF is_home_cnu THEN p.home_totals ELSE p.away_totals
        opp_tot == IF is_home_cnu THEN p.away_totals ELSE p.home_totals
    IN [season |-> season,
        date |-> Get(CleanDates[game[1]].val),
        home |-> IF is_home_cnu THEN 1 ELSE 0,
        opponent |-> IF is_home_cnu THEN p.away_name ELSE p.home_name,
        location_text |-> game[2],
        result_text |-> game[3],
        cnu_pts |-> IF is_home_cnu THEN p.home_pts ELSE p.away_pts,
        opp_pts |-> IF is_home_cnu THEN p.home_pts ELSE p.away_pts,
        cnu_fgm |-> stat(cnu_tot, "fgm"), cnu_fga |-> stat(cnu_tot, "fga"),
        cnu_orb |-> stat(cnu_tot, "orb"), cnu_drb |-> stat(cnu_tot, "drb"),
        cnu_trb |-> stat(cnu_tot, "trb"), cnu_to |-> stat(cnu_tot, "to"),
        opp_fgm |-> stat(opp_tot, "fgm"), opp_fga |-> stat(opp_tot, "fga"),
        opp_orb |-> stat(opp_tot, "orb"), opp_drb |-> stat(opp_tot, "drb"),
        opp_trb |-> stat(opp_tot, "trb"), opp_to |-> stat(opp_tot, "to"),
        cnu_first_half |-> IF is_home_cnu THEN p.home_first_half ELSE p.away_first_half,
        opp_first_half |-> IF is_home_cnu THEN p.away_first_half ELSE p.home_first_half,
        ot |-> ot_flag(game[3], game[2]),
        box_url |-> game[4]]

\* The row of a game (lines 229-269): game is the entry of the season page, p
\* the parsed box page
game_row(season, game, p, is_home_cnu) ==
    LET cnu_tot == IF is_home_cnu THEN p.home_totals ELSE p.away_totals
        opp_tot == IF is_home_cnu THEN p.away_totals ELSE p.home_totals
    IN [season |-> season,
        date |-> Get(CleanDates[game[1]].val),
        home |-> IF is_home_cnu THEN 1 ELSE 0,
        opponent |-> IF is_home_cnu THEN p.away_name ELSE p.home_name,
        location_text |-> game[2],
        result_text |-> game[3],
        cnu_pts |-> IF is_home_cnu THEN p.home_pts ELSE p.away_pts,
        opp_pts |-> IF is_home_cnu THEN p.away_pts ELSE p.home_pts,
        cnu_fgm |-> stat(cnu_tot, "fgm"), cnu_fga |-> stat(cnu_tot, "fga"),
        cnu_orb |-> stat(cnu_tot, "orb"), cnu_drb |-> stat(cnu_tot, "drb"),
        cnu_trb |-> stat(cnu_tot, "trb"), cnu_to |-> stat(cnu_tot, "to"),
        opp_fgm |-> stat(opp_tot, "fgm"), opp_fga |-> stat(opp_tot, "fga"),
        opp_orb |-> stat(opp_tot, "orb"), opp_drb |-> stat(opp_tot, "drb"),
        opp_trb |-> stat(opp_tot, "trb"), opp_to |-> stat(opp_tot, "to"),
        cnu_first_half |-> IF is_home_cnu THEN p.home_first_half ELSE p.away_first_half,
        opp_first_half |-> IF is_home_cnu THEN p.away_first_half ELSE p.home_first_half,
        ot |-> ot_flag(game[3], game[2]),
        box_url |-> game[4]]

\* str(n) of an int
str_int(n) == IF n < 0 THEN <<"-">> \o str_(0 - n) ELSE str_(n)

\* The cell csv.DictWriter writes for a value: None is written as the empty
\* string, an int in decimal, a str as it is
TextFields == {"season", "date", "opponent", "location_text", "result_text", "box_url"}
IntFields == {"home", "ot"}
csv_cell(field, value) ==
    IF field \in TextFields THEN value
    ELSE IF field \in IntFields THEN str_int(value)
    ELSE IF value = None THEN <<>>
    ELSE str_int(Get(value))

csv_row(row) == [k \in 1..Len(fieldnames) |-> csv_cell(fieldnames[k], row[fieldnames[k]])]

---------------------------------------------------------------------------
(* A run of scrape_range *)

Years == years(arg.start_year, arg.end_year)
Seasons == seasons(arg.start_year, arg.end_year)

Init ==
    /\ pc = "call"
    /\ fn = "scrape_range"
    /\ arg \in [start_year : FirstYear..LastYear,
                end_year : (FirstYear - 1)..LastYear,
                out_csv : {"data/raw/cnu_games.csv"},
                sleep_sec : {DefaultSleep}]
    /\ ret = Return(None)
    /\ NotScraping

\* Lines 188-198: the season list and the empty list of rows
EnterScrapeRange ==
    /\ pc = "call"
    /\ fn = "scrape_range"
    /\ out_rows' = <<>>
    /\ pc' = "seasons"
    /\ UNCHANGED <<fn, arg, ret, season_i, games, game_i, box_html, out_file, in_flight, log>>

\* Lines 200-203: the season loop takes the next season and requests its page
NextSeason ==
    /\ pc = "seasons"
    /\ season_i < Len(Seasons)
    /\ season_i' = season_i + 1
    /\ in_flight' = Append(in_flight, season_url_of(Seasons[season_i + 1]))
    /\ log' = Append(log, [ev |-> "get_season", season |-> Years[season_i + 1]])
    /\ pc' = "season_fetch"
    /\ UNCHANGED <<fn, arg, ret, games, game_i, box_html, out_rows, out_file>>

\* The mutant of SeasonFetchFails that leaves the season loop
SeasonFetchFails_Break ==
    /\ pc = "season_fetch"
    /\ in_flight' = Tail(in_flight)
    /\ log' = Append(log, [ev |-> "season_fail", season |-> Years[season_i]])
    /\ season_i' = Len(Seasons)
    /\ pc' = "seasons"
    /\ UNCHANGED <<fn, arg, ret, games, game_i, box_html, out_rows, out_file>>

\* Lines 204-206: fetch raises; the season is skipped
SeasonFetchFails ==
    /\ pc = "season_fetch"
    /\ in_flight' = Tail(in_flight)
    /\ log' = Append(log, [ev |-> "season_fail", season |-> Years[season_i]])
    /\ pc' = "seasons"
    /\ UNCHANGED <<fn, arg, ret, season_i, games, game_i, box_html, out_rows, out_file>>

\* Lines 203, 208-209: fetch returns the season page, which is parsed
SeasonFetchReturns ==
    /\ pc = "season_fetch"
    /\ \E html \in IndexPages :
       \E found \in {parse_game_result_rows(html, season_url_of(Seasons[season_i]))} :
             /\ games' = found.val
             /\ log' = Append(log, [ev |-> "season_ok", season |-> Years[season_i],
                                    links |-> Len(found.val)])
    /\ in_flight' = Tail(in_flight)
    /\ game_i' = 0
    /\ pc' = "games"
    /\ UNCHANGED <<fn, arg, ret, season_i, box_html, out_rows, out_file>>

\* The mutant of Sleep that does not wait before the first game of a season
Sleep_NotBeforeFirst ==
    /\ pc = "games"
    /\ game_i < Len(games)
    /\ game_i' = game_i + 1
    /\ log' = IF game_i = 0 THEN log
              ELSE Append(log, [ev |-> "sleep", season |-> Years[season_i],
                                game |-> game_i + 1, secs |-> arg.sleep_sec])
    /\ pc' = "box_request"
    /\ UNCHANGED <<fn, arg, ret, season_i, games, box_html, out_rows, out_file, in_flight>>

\* Lines 211-212: the game loop takes the next link and sleeps
Sleep ==
    /\ pc = "games"
    /\ game_i < Len(games)
    /\ game_i' = game_i + 1
    /\ log' = Append(log, [ev |-> "sleep", season |-> Years[season_i],
                           game |-> game_i + 1, secs |-> arg.sleep_sec])
    /\ pc' = "box_request"
    /\ UNCHANGED <<fn, arg, ret, season_i, games, box_html, out_rows, out_file, in_flight>>

\* Line 211: the game loop has taken every link of the season
SeasonDone ==
    /\ pc = "games"
    /\ game_i = Len(games)
    /\ pc' = "seasons"
    /\ UNCHANGED <<fn, arg, ret, scrape>>

\* Lines 213-214: the box page is requested
RequestBoxPage ==
    /\ pc = "box_request"
    /\ in_flight' = Append(in_flight, games[game_i][4])
    /\ log' = Append(log, [ev |-> "get_box", season |-> Years[season_i], game |-> game_i])
    /\ pc' = "box_fetch"
    /\ UNCHANGED <<fn, arg, ret, season_i, games, game_i, box_html, out_rows, out_file>>

\* Lines 215-217: fetch raises; the game is skipped
BoxFetchFails ==
    /\ pc = "box_fetch"
    /\ in_flight' = Tail(in_flight)
    /\ log' = Append(log, [ev |-> "box_fail", season |-> Years[season_i], game |-> game_i])
    /\ pc' = "games"
    /\ UNCHANGED <<fn, arg, ret, season_i, games, game_i, box_html, out_rows, out_file>>

\* Line 214: fetch returns a box page
BoxFetchReturns ==
    /\ pc = "box_fetch"
    /\ \E k \in 1..Len(ServedPages) :
          /\ box_html' = k
          /\ log' = Append(log, [ev |-> "box_ok", season |-> Years[season_i],
                                 game |-> game_i, page |-> k])
    /\ in_flight' = Tail(in_flight)
    /\ pc' = "box_page"
    /\ UNCHANGED <<fn, arg, ret, season_i, games, game_i, out_rows, out_file>>

\* Lines 219-227: the page is parsed and names the tracked team on neither
\* side; the game is skipped.  An exception of parse_box_page leaves
\* scrape_range.
SkipBoxPage ==
    /\ pc = "box_page"
    /\ \E p \in {ParsedPages[box_html]} :
          IF p.exc # ""
          THEN /\ pc' = "raise"
               /\ ret' = Raise(p.exc)
               /\ log' = log
          ELSE /\ ~(is_cnu(Get(p.val).home_name) \/ is_cnu(Get(p.val).away_name))
               /\ pc' = "games"
               /\ ret' = ret
               /\ log' = Append(log, [ev |-> "skip", season |-> Years[season_i],
                                      game |-> game_i, page |-> box_html])
    /\ UNCHANGED <<fn, arg, season_i, games, game_i, box_html, out_rows, out_file, in_flight>>

\* The mutant of RecordGame that puts the new row in front of the others
RecordGame_Prepend ==
    /\ pc = "box_page"
    /\ ParsedPages[box_html].exc = ""
    /\ \E p \in {Get(ParsedPages[box_html].val)} :
       \E is_home_cnu \in {is_cnu(p.home_name)}, is_away_cnu \in {is_cnu(p.away_name)} :
          /\ is_home_cnu \/ is_away_cnu
          /\ out_rows' = <<game_row(Seasons[season_i], games[game_i], p, is_home_cnu)>>
                             \o out_rows
    /\ log' = Append(log, [ev |-> "append", season |-> Years[season_i],
                           game |-> game_i, page |-> box_html])
    /\ pc' = "games"
    /\ UNCHANGED <<fn, arg, ret, season_i, games, game_i, box_html, out_file, in_flight>>

\* Lines 219-272: the page is parsed and names the tracked team; the row of the
\* game is appended
RecordGame ==
    /\ pc = "box_page"
    /\ ParsedPages[box_html].exc = ""
    /\ \E p \in {Get(ParsedPages[box_html].val)} :
       \E is_home_cnu \in {is_cnu(p.home_name)}, is_away_cnu \in {is_cnu(p.away_name)} :
          /\ is_home_cnu \/ is_away_cnu
          /\ out_rows' = Append(out_rows,
                                game_row(Seasons[season_i], games[game_i], p, is_home_cnu))
    /\ log' = Append(log, [ev |-> "append", season |-> Years[season_i],
                           game |-> game_i, page |-> box_html])
    /\ pc' = "games"
    /\ UNCHANGED <<fn, arg, ret, season_i, games, game_i, box_html, out_file, in_flight>>

\* The mutant of WriteCsv that writes no file when there is no row
WriteCsv_NotWhenEmpty ==
    /\ pc = "seasons"
    /\ season_i = Len(Seasons)
    /\ IF out_rows = <<>>
       THEN UNCHANGED <<out_file, log>>
       ELSE /\ out_file' = Some([header |-> fieldnames,
                                 rows |-> [i \in 1..Len(out_rows) |-> csv_row(out_rows[i])]])
            /\ log' = Append(log, [ev |-> "write", rows |-> Len(out_rows)])
    /\ ret' = Return(Some(arg.out_csv))
    /\ pc' = "return"
    /\ UNCHANGED <<fn, arg, season_i, games, game_i, box_html, out_rows, in_flight>>

\* Lines 274-279: after the last season the header and the rows are written
WriteCsv ==
    /\ pc = "seasons"
    /\ season_i = Len(Seasons)
    /\ out_file' = Some([header |-> fieldnames,
                         rows |-> [i \in 1..Len(out_rows) |-> csv_row(out_rows[i])]])
    /\ log' = Append(log, [ev |-> "write", rows |-> Len(out_rows)])
    /\ ret' = Return(Some(arg.out_csv))
    /\ pc' = "return"
    /\ UNCHANGED <<fn, arg, season_i, games, game_i, box_html, out_rows, in_flight>>

Next ==
    \/ EnterScrapeRange
    \/ NextSeason
    \/ SeasonFetchFails
    \/ SeasonFetchReturns
    \/ Sleep
    \/ SeasonDone
    \/ RequestBoxPage
    \/ BoxFetchFails
    \/ BoxFetchReturns
    \/ SkipBoxPage
    \/ RecordGame
    \/ WriteCsv

Spec == Init /\ [][Next]_vars

\* scrape_range runs in one thread and each fetch returns or raises within its
\* timeout: a step that can be taken is taken
SpecFair == Spec /\ WF_vars(Next)

---------------------------------------------------------------------------
(* process_goals.build_goals and report_rule.rule_report.  A CSV file is its *)
(* header and its rows, a row giving the text of its cell in each column.    *)
(* Of the raw table's columns the rows carry the ten that build_goals reads. *)

GoalInputs == {"cnu_pts", "opp_pts", "cnu_trb", "opp_trb", "cnu_to", "opp_to",
               "cnu_fga", "cnu_fgm", "cnu_orb", "opp_first_half"}
GoalFlags == <<"goal_reb", "goal_to", "goal_orb", "goal_def30">>
GoalColumns == <<"win">> \o GoalFlags \o <<"goals_hit">>

\* The columns of a file
columns(file) == {file.header[k] : k \in DOMAIN file.header}

\* pd.read_csv on a cell of a column of integers: an empty cell is NaN (None)
read_cell(cell) == IF cell = <<>> THEN None ELSE int_(cell)

\* pd.read_csv: the rows of the file, cell by cell
read_csv(file, cols) == [i \in 1..Len(file.rows) |-> [c \in cols |-> read_cell(file.rows[i][c])]]

\* Series > Series, < and >= : a comparison with NaN is False
gt(a, b) == IsSome(a) /\ IsSome(b) /\ Get(a) > Get(b)
lt(a, b) == IsSome(a) /\ IsSome(b) /\ Get(a) < Get(b)
ge(a, b) == IsSome(a) /\ IsSome(b) /\ Get(a) >= Get(b)

\* Series - Series: NaN when either is
sub(a, b) == IF IsSome(a) /\ IsSome(b) THEN Some(Get(a) - Get(b)) ELSE None

\* .astype(int) of a boolean
astype_int(b) == IF b THEN 1 ELSE 0

\* The mutant of ratio_ge_040 with a strict comparison
ratio_gt_040(orb, misses) ==
    IF ~IsSome(orb) \/ ~IsSome(misses) THEN FALSE
    ELSE IF Get(misses) > 0 THEN 5 * Get(orb) > 2 * Get(misses)
    ELSE IF Get(misses) < 0 THEN 5 * Get(orb) < 2 * Get(misses)
    ELSE Get(orb) > 0

\* Line 23: (df["cnu_orb"] / misses) >= 0.40 on float64.  The quotient of two
\* integers below 2^53 is the double nearest to the exact quotient and 0.40 the
\* double nearest to 2/5, so the comparison is the exact one, 5 orb >= 2 misses
\* for misses > 0; x / 0 is inf, nan or -inf as x is positive, zero or negative
ratio_ge_040(orb, misses) ==
    IF ~IsSome(orb) \/ ~IsSome(misses) THEN FALSE
    ELSE IF Get(misses) > 0 THEN 5 * Get(orb) >= 2 * Get(misses)
    ELSE IF Get(misses) < 0 THEN 5 * Get(orb) <= 2 * Get(misses)
    ELSE Get(orb) > 0

\* Lines 9-28 on one row of the frame
goals_of(r) ==
    LET win == astype_int(gt(r["cnu_pts"], r["opp_pts"]))
        goal_reb == astype_int(gt(r["cnu_trb"], r["opp_trb"]))
        goal_to == astype_int(lt(r["cnu_to"], r["opp_to"]))
        misses == sub(r["cnu_fga"], r["cnu_fgm"])
        goal_orb == astype_int((IsSome(misses) /\ Get(misses) = 0)
                               \/ ratio_ge_040(r["cnu_orb"], misses))
        goal_def30 == astype_int(lt(r["opp_first_half"], Some(30)))
    IN [win |-> win, goal_reb |-> goal_reb, goal_to |-> goal_to, goal_orb |-> goal_orb,
        goal_def30 |-> goal_def30,
        goals_hit |-> goal_reb + goal_to + goal_orb + goal_def30]

\* df.to_csv on a cell read from the raw table: a column with a NaN in it is a
\* column of floats, whose numbers are written with their fraction
to_csv_cell(df, c, i) ==
    IF df[i][c] = None THEN <<>>
    ELSE IF \E j \in 1..Len(df) : df[j][c] = None
         THEN str_int(Get(df[i][c])) \o <<".", "0">>
         ELSE str_int(Get(df[i][c]))

\* build_goals: the file written to out_csv
build_goals(file) ==
    LET df == read_csv(file, GoalInputs)
        derived == [i \in 1..Len(df) |-> goals_of(df[i])]
        derivedColumns == {GoalColumns[k] : k \in DOMAIN GoalColumns}
    IN [header |-> file.header \o GoalColumns,
        rows |-> [i \in 1..Len(df) |->
                     [c \in GoalInputs \cup derivedColumns |->
                         IF c \in GoalInputs THEN to_csv_cell(df, c, i)
                         ELSE str_int(derived[i][c])]]]

\* rule_report: the ValueError of lines 5-6, else the predictions of line 19
\* and the confusion counts of lines 20-23 that line 28 prints
rule_report(file) ==
    IF ~("win" \in columns(file) /\ "goals_hit" \in columns(file)) THEN Raise("ValueError")
    ELSE LET df == read_csv(file, {"win", "goals_hit"})
             pred_win == [i \in 1..Len(df) |-> astype_int(ge(df[i]["goals_hit"], Some(3)))]
             count(p, w) == Cardinality({i \in 1..Len(df) :
                                            pred_win[i] = p /\ df[i]["win"] = Some(w)})
         IN Return([pred_win |-> pred_win, tp |-> count(1, 1), fp |-> count(1, 0),
                    tn |-> count(0, 0), fn |-> count(0, 1)])

---------------------------------------------------------------------------
(* Raw tables: the row of the 70-65 game and rows around the thresholds of   *)
(* the rules, with the cells that a box page without a period section, with  *)
(* a field-goal token without attempts or with a token that is no number     *)
(* leaves empty                                                              *)

RawRow(v) == [c \in GoalInputs |-> csv_cell(c, v[c])]

ExampleStats ==
    [cnu_pts |-> Some(70), opp_pts |-> Some(65), cnu_trb |-> Some(40), opp_trb |-> Some(35),
     cnu_to |-> Some(8), opp_to |-> Some(12), cnu_fga |-> Some(55), cnu_fgm |-> Some(25),
     cnu_orb |-> Some(13), opp_first_half |-> Some(28)]

\* (makes, attempts) as split_pair leaves them
FieldGoalPairs == {<<None, None>>, <<Some(25), None>>, <<Some(25), Some(55)>>,
                   <<Some(25), Some(25)>>, <<Some(0), Some(0)>>}

RawStats ==
    {[cnu_pts |-> cp, opp_pts |-> op, cnu_trb |-> ct, opp_trb |-> ot,
      cnu_to |-> cto, opp_to |-> oto, cnu_fga |-> fg[2], cnu_fgm |-> fg[1],
      cnu_orb |-> orb, opp_first_half |-> ofh] :
        cp \in {None, Some(65), Some(70), Some(75)}, op \in {Some(70)},
        ct \in {Some(40)}, ot \in {None, Some(35), Some(40), Some(45)},
        cto \in {None, Some(8), Some(12), Some(13)}, oto \in {Some(12)},
        fg \in FieldGoalPairs, orb \in {None, Some(0), Some(11), Some(12), Some(13)},
        ofh \in {None, Some(29), Some(30)}}

RawTables ==
    LET table(rows) == [header |-> fieldnames, rows |-> rows]
    IN {table(<<>>)}
       \cup {table(<<RawRow(v)>>) : v \in RawStats \cup {ExampleStats}}
       \cup {table(<<RawRow(v), RawRow(ExampleStats)>>) : v \in {w \in RawStats : w.cnu_pts = None}}

InitGoals ==
    /\ pc = "call"
    /\ fn \in {"build_goals", "rule_report"}
    /\ arg \in RawTables
    /\ ret = Return(None)
    /\ NotScraping

\* cli "process": build_goals(in_csv, out_csv)
CallBuildGoals ==
    /\ pc = "call"
    /\ fn = "build_goals"
    /\ ret' = Return(build_goals(arg))
    /\ pc' = "return"
    /\ UNCHANGED <<fn, arg, scrape>>

\* cli "report" is given the file that "process" wrote
ReportGoals ==
    /\ pc = "return"
    /\ fn = "build_goals"
    /\ fn' = "rule_report"
    /\ arg' = ret.val
    /\ ret' = Return(None)
    /\ pc' = "call"
    /\ UNCHANGED scrape

\* cli "report": rule_report(in_csv)
CallRuleReport ==
    /\ pc = "call"
    /\ fn = "rule_report"
    /\ ret' = rule_report(arg)
    /\ pc' = IF ret'.exc = "" THEN "return" ELSE "raise"
    /\ UNCHANGED <<fn, arg, scrape>>

NextGoals == CallBuildGoals \/ ReportGoals \/ CallRuleReport

SpecGoals == InitGoals /\ [][NextGoals]_vars

---------------------------------------------------------------------------
(* C1 *)

\* The number of whitespace-separated tokens of a line, counted on the line
TokenCount(s) ==
    Cardinality({i \in 1..Len(s) : ~IsSpace(s[i]) /\ (i = 1 \/ IsSpace(s[i - 1]))})

\* A made-attempted token as the claim reads it
PairOf(tok) ==
    LET hyphens == {i \in 1..Len(tok) : tok[i] = "-"}
        h == CHOOSE i \in hyphens : \A j \in hyphens : i <= j
    IN IF hyphens = {}
       THEN <<int_(tok), None>>
       ELSE IF IsSome(int_(Slice(tok, 1, h - 1))) /\ IsSome(int_(Slice(tok, h + 1, Len(tok))))
            THEN <<int_(Slice(tok, 1, h - 1)), int_(Slice(tok, h + 1, Len(tok)))>>
            ELSE <<None, None>>

ExampleLine == join(<<" ">>, ExampleTokens)

\* C1: a totals line of at least 13 tokens parses to a value whose fields come
\* position by position from its tokens: the three pairs from tokens 1, 2, 3,
\* the rebounds from tokens 4, 5, 6, turnovers from token 10, each field unset
\* exactly when its own token is not numeric; the docstring's line gives
\* 26/58, 7/18, 25/35, 10, 32, 42 and 9 turnovers.
C1_TotalsByPosition ==
    (fn = "parse_totals_line" /\ pc # "call" /\ TokenCount(arg) >= 13) =>
        /\ pc = "return"
        /\ IsSome(ret.val)
        /\ LET r == Get(ret.val)
               t == split(arg)
           IN /\ <<r.fgm, r.fga>> = PairOf(t[1])
              /\ <<r.tpm, r.tpa>> = PairOf(t[2])
              /\ <<r.ftm, r.fta>> = PairOf(t[3])
              /\ r.orb = int_(t[4])
              /\ r.drb = int_(t[5])
              /\ r.trb = int_(t[6])
              /\ r.to = int_(t[10])
        /\ (arg = ExampleLine =>
               Get(ret.val) = [fgm |-> Some(26), fga |-> Some(58),
                               tpm |-> Some(7), tpa |-> Some(18),
                               ftm |-> Some(25), fta |-> Some(35),
                               orb |-> Some(10), drb |-> Some(32), trb |-> Some(42),
                               to |-> Some(9)])

\* C1 witness: a 13-token line whose turnovers token alone is not numeric has
\* been parsed: turnovers is unset and every other field is set
C1_Witness ==
    /\ fn = "parse_totals_line"
    /\ pc = "return"
    /\ TokenCount(arg) = 13
    /\ IsSome(ret.val)
    /\ Get(ret.val).to = None
    /\ Get(ret.val).fgm = Some(26) /\ Get(ret.val).fga = Some(58)
    /\ Get(ret.val).orb = Some(10) /\ Get(ret.val).trb = Some(42)

---------------------------------------------------------------------------
(* C2 *)

\* group(1) of the first line of a segment that TOTALS_LINE_PATTERN matches
FirstTotalsRest(block) ==
    LET ls == splitlines(block)
        hits == {k \in 1..Len(ls) : totals_rest(ls[k]) # None}
    IN IF hits = {} THEN None ELSE totals_rest(ls[Least(hits)])

\* The segment holds no matching Totals line, or one of fewer than 13 tokens
ShortOrMissing(block) ==
    \/ FirstTotalsRest(block) = None
    \/ TokenCount(Get(FirstTotalsRest(block))) < 13

\* C2: a totals line of fewer than 13 tokens (the empty line too) parses to an
\* unset value and the call returns; parse_box_page returns a result whose
\* totals of a side are unset when that side's segment holds no matching
\* Totals line or one of fewer than 13 tokens.
C2_ShortTotalsUnset ==
    /\ (fn = "parse_totals_line" /\ pc # "call" /\ TokenCount(arg) < 13) =>
           (pc = "return" /\ ret.val = None)
    /\ (fn = "parse_box_page" /\ pc # "call") =>
           /\ pc = "return"
           /\ IsSome(ret.val)
           /\ ShortOrMissing(away_block(BoxText(arg))) => Get(ret.val).away_totals = None
           /\ ShortOrMissing(home_block(BoxText(arg))) => Get(ret.val).home_totals = None

\* C2 witness: a page whose away Totals line has 12 tokens has been parsed: the
\* away totals are unset, the names, the home totals and the scores are set
C2_Witness ==
    /\ fn = "parse_box_page"
    /\ pc = "return"
    /\ FirstTotalsRest(away_block(BoxText(arg))) # None
    /\ TokenCount(Get(FirstTotalsRest(away_block(BoxText(arg))))) = 12
    /\ Get(ret.val).away_totals = None
    /\ Get(ret.val).home_totals # None
    /\ Get(ret.val).away_name # <<>> /\ Get(ret.val).home_name # <<>>
    /\ Get(ret.val).away_pts # None /\ Get(ret.val).home_pts # None

---------------------------------------------------------------------------
(* C3 *)

HasDigit(line) == \E i \in 1..Len(line) : IsDigit(line[i])

\* The page without its Score by Periods section
WithoutScore(pg) == [pg EXCEPT !.score = <<>>, !.score_at = "bottom"]

\* The section is followed by no line of the page
ScoreIsLast(pg) ==
    \/ pg.score_at = "bottom"
    \/ pg.visitors \o pg.away_totals \o pg.home \o pg.home_totals = <<>>

\* C3 as claimed: the four period-score fields are all set or all unset
C3_AllOrNothing ==
    (fn = "parse_box_page" /\ pc = "return") =>
        LET r == Get(ret.val)
        IN \/ r.away_first_half # None /\ r.home_first_half # None
              /\ r.away_pts # None /\ r.home_pts # None
           \/ r.away_first_half = None /\ r.home_first_half = None
              /\ r.away_pts = None /\ r.home_pts = None

\* C3 as amended: each side's first-half and final points are set or unset
\* together; all four are unset when the section is absent or has one row that
\* ends the text; when the section has its two rows, a side's pair is unset
\* exactly when its row holds no integer; and the names and totals are those
\* of the page without the section.
C3_PerSideScores ==
    (fn = "parse_box_page" /\ pc = "return") =>
        LET r == Get(ret.val)
            n == Len(arg.score)
            base == Get(parse_box_page(BoxText(WithoutScore(arg))).val)
        IN /\ (r.away_first_half = None) <=> (r.away_pts = None)
           /\ (r.home_first_half = None) <=> (r.home_pts = None)
           /\ (n = 0 \/ (n = 2 /\ ScoreIsLast(arg))) =>
                  /\ r.away_first_half = None /\ r.home_first_half = None
                  /\ r.away_pts = None /\ r.home_pts = None
           /\ n >= 3 =>
                  /\ (r.away_pts # None) <=> HasDigit(arg.score[n - 1])
                  /\ (r.home_pts # None) <=> HasDigit(arg.score[n])
           /\ r.away_name = base.away_name /\ r.home_name = base.home_name
           /\ r.away_totals = base.away_totals /\ r.home_totals = base.home_totals

\* C3 witness: a page whose home row holds no integer has been parsed: the away
\* scores are set, the home scores are not, and names and totals are there
C3_Witness ==
    /\ fn = "parse_box_page"
    /\ pc = "return"
    /\ Len(arg.score) = 3 /\ ~HasDigit(arg.score[3])
    /\ Get(ret.val).away_first_half = Some(30) /\ Get(ret.val).away_pts = Some(65)
    /\ Get(ret.val).home_first_half = None /\ Get(ret.val).home_pts = None
    /\ Get(ret.val).away_name # <<>> /\ Get(ret.val).home_totals # None

---------------------------------------------------------------------------
(* C7 *)

\* The text without the whitespace around it, told from the text itself
IsStrippedFrom(t, s) ==
    /\ (Len(t) > 0 => ~IsSpace(t[1]) /\ ~IsSpace(t[Len(t)]))
    /\ \E i \in 0..(Len(s) - Len(t)) :
           /\ Slice(s, i + 1, i + Len(t)) = t
           /\ \A k \in 1..i : IsSpace(s[k])
           /\ \A k \in (i + Len(t) + 1)..Len(s) : IsSpace(s[k])
StrippedOf(s) == CHOOSE t \in {Slice(s, i, j) : i \in 1..(Len(s) + 1), j \in 0..Len(s)} :
                     IsStrippedFrom(t, s)

\* The two-digit-year parse of the cell, if it is a valid date
TwoDigitParse(s) == strptime(StrippedOf(s), "%m/%d/%y")

\* C7: a valid month/day/two-digit-year text gives the ISO date of the parsed
\* year plus exactly 100 when that year is below 1990, and of the parsed year
\* otherwise, with the same month and day: year 20yy for every yy < 90.
C7_CenturyAdjust ==
    (fn = "clean_date" /\ pc # "call" /\ TwoDigitParse(arg) # None) =>
        LET dt == Get(TwoDigitParse(arg))
            year == IF dt.year < 1990 THEN dt.year + 100 ELSE dt.year
        IN /\ pc = "return"
           /\ ret.val = Some(Pad2(year \div 100) \o Pad2(year % 100) \o <<"-">>
                                \o Pad2(dt.month) \o <<"-">> \o Pad2(dt.day))

---------------------------------------------------------------------------
(* C8 *)

NeitherFormatParses(s) ==
    /\ strptime(StrippedOf(s), "%m/%d/%y") = None
    /\ strptime(StrippedOf(s), "%m/%d/%Y") = None

\* C8 as claimed: a text that parses under neither format is returned
\* unchanged, character for character, whitespace around it included
C8_PassthroughExact ==
    (fn = "clean_date" /\ pc # "call" /\ NeitherFormatParses(arg)) =>
        (pc = "return" /\ ret.val = Some(arg))

\* C8 as amended: a text that parses under neither format is returned without
\* the whitespace around it and otherwise unchanged, and the call does not
\* raise; a text that parses under a format is not passed through.
C8_PassthroughStripped ==
    (fn = "clean_date" /\ pc # "call") =>
        /\ pc = "return"
        /\ NeitherFormatParses(arg) =>
               (IsSome(ret.val) /\ IsStrippedFrom(Get(ret.val), arg))
        /\ ~NeitherFormatParses(arg) =>
               (IsSome(ret.val) /\ Len(Get(ret.val)) = 10 /\ Get(ret.val)[5] = "-")

\* C8 witness: a cell holding " TBA" and a line end has been passed through
\* as "TBA"
C8_Witness ==
    /\ fn = "clean_date"
    /\ pc = "return"
    /\ arg = <<" ", "T", "B", "A", " ", "\n">>
    /\ ret.val = Some(<<"T", "B", "A">>)

---------------------------------------------------------------------------
(* C9 *)

\* The visible text of an a element is "box score", whatever the case
HasBoxScoreText(a) ==
    LET text == get_text_strip(a.strings)
    IN /\ Len(text) = 9
       /\ \A i \in 1..9 : text[i] \in {S_box_score[i], UpperChar(S_box_score[i])}

\* The nearest enclosing row of an a element has at least three cells
InRowOfThree(a) == a.row # None /\ Len(Get(a.row)) >= 3

\* The entry of an a element: the texts of the first three cells of its row and
\* its href resolved against the season URL
EntryOf(a, season_url) ==
    <<strip(join(<<" ">>, Get(a.row)[1])),
      strip(join(<<" ">>, Get(a.row)[2])),
      strip(join(<<" ">>, Get(a.row)[3])),
      urljoin(season_url, IF a.href = None THEN <<>> ELSE Get(a.href))>>

\* One entry for each of the chosen a elements, in document order
EntriesOf(chosen, season_url) == [i \in 1..Len(chosen) |-> EntryOf(chosen[i], season_url)]

\* C9 as claimed: parse_game_result_rows returns one entry for each a element
\* whose visible text is "box score" and whose row has at least three cells,
\* in document order and without deduplication
C9_EveryBoxScoreAnchor ==
    (fn = "parse_game_result_rows" /\ pc # "call") =>
        /\ pc = "return"
        /\ ret.val = EntriesOf(SelectSeq(arg.html,
                                   LAMBDA a : HasBoxScoreText(a) /\ InRowOfThree(a)),
                               arg.season_url)

\* C9 as amended: parse_game_result_rows returns one entry for each a element
\* that has an href attribute, whose visible text is "box score" whatever the
\* case, and whose nearest enclosing row has at least three cells, in document
\* order and without deduplication; an a element without an href attribute,
\* without an enclosing row, or in a row of fewer than three cells gives no
\* entry; each entry holds the texts of the first three cells of the row and
\* the href resolved against the season URL.
C9_LinkEntries ==
    (fn = "parse_game_result_rows" /\ pc # "call") =>
        /\ pc = "return"
        /\ ret.val = EntriesOf(SelectSeq(arg.html,
                                   LAMBDA a : /\ a.href # None
                                              /\ HasBoxScoreText(a)
                                              /\ InRowOfThree(a)),
                               arg.season_url)

\* C9 witness: a page that holds the same link twice in the same row of four
\* cells has given two equal entries, with the cell texts stripped and the
\* href resolved into the directory of the season page
C9_Witness ==
    /\ fn = "parse_game_result_rows"
    /\ pc = "return"
    /\ Len(arg.html) = 2
    /\ arg.html[1] = [href |-> Hrefs[1], strings |-> LinkStrings[1], row |-> Some(Row4)]
    /\ arg.html[2] = arg.html[1]
    /\ ret.val[1] = <<<<"1","1","/","1","5","/","1","2">>, <<"a","t"," ","L","y","n","c","h","b","u","r","g">>, <<"W"," ","7","0","-","6","5">>,
                      <<"h","t","t","p","s",":","/","/","s","t","a","t","i","c",".","c","n","u","s","p","o","r","t","s",".","c","o","m","/","c","u","s","t","o","m","p","a","g","e","s","/","m","b","b","a","l","l","/","S","t","a","t","s","/","2","0","1","2","-","2","0","1","3","/","c","n","u","m","g","m","2","7",".","h","t","m">>>>
    /\ ret.val = <<ret.val[1], ret.val[1]>>

---------------------------------------------------------------------------
(* C4 *)

\* The tracked-team name variants of the claim
TrackedVariants ==
    {<<"C","h","r","i","s","t","o","p","h","e","r"," ","N","e","w","p","o","r","t">>,
     <<"C","h","r","i","s","."," ","N","e","w","p","o","r","t">>,
     <<"C","N","U">>,
     <<"C","h","r","i","s"," ","N","e","w","p","o","r","t">>}

\* A name holds one of the variants as a substring
HasVariant(name) ==
    \E v \in TrackedVariants : \E i \in 1..Len(name) :
        /\ i + Len(v) - 1 <= Len(name)
        /\ \A j \in 1..Len(v) : name[i + j - 1] = v[j]

\* The home name or the away name of a served box page holds a variant
NamesTracked(k) ==
    /\ ParsedPages[k].exc = ""
    /\ \/ HasVariant(Get(ParsedPages[k].val).home_name)
       \/ HasVariant(Get(ParsedPages[k].val).away_name)

\* The log entries of the appended rows: entry k tells the page row k is from
RowSources == SelectSeq(log, LAMBDA e : e.ev = "append")

C4_Rows ==
    fn = "scrape_range" =>
        /\ pc # "raise"
        /\ Len(RowSources) = Len(out_rows)
        /\ \A k \in 1..Len(out_rows) : NamesTracked(RowSources[k].page)
        /\ out_file # None => Len(Get(out_file).rows) = Len(out_rows)

C4_Skip ==
    (pc = "box_page" /\ ~NamesTracked(box_html)) =>
        /\ out_rows' = out_rows
        /\ pc' = "games"
        /\ UNCHANGED <<season_i, games, game_i>>

\* C4: at every point of a run every accumulated row, and so every written
\* row, is from a box page whose home or away name holds a tracked variant; a
\* page where neither name does adds no row, raises no error, and the game
\* loop goes on with the next link.
C4_OnlyTrackedGames == [](C4_Rows) /\ [][C4_Skip]_vars

\* C4 witness: a run has skipped a page that names the tracked team on neither
\* side, then appended the row of a later game, and has written its rows
C4_Witness ==
    /\ fn = "scrape_range"
    /\ pc = "return"
    /\ Len(out_rows) >= 1
    /\ \E i \in 1..Len(log) : \E j \in (i + 1)..Len(log) :
          /\ log[i].ev = "skip" /\ ~NamesTracked(log[i].page)
          /\ log[j].ev = "append" /\ log[j].season = log[i].season

---------------------------------------------------------------------------
(* C5 *)

\* The log entries of one kind
Events(ev) == SelectSeq(log, LAMBDA e : e.ev = ev)

\* The log entries of one kind and one season
EventsOf(ev, y) == SelectSeq(log, LAMBDA e : e.ev = ev /\ e.season = y)

\* A step in which a fetch fails leaves the rows as they are and the loops at
\* their place, so that the next season or the next link is taken next
C5_FailureStep ==
    /\ (pc = "season_fetch" /\ pc' # "games") =>
           (pc' = "seasons" /\ out_rows' = out_rows /\ season_i' = season_i)
    /\ (pc = "box_fetch" /\ pc' # "box_page") =>
           (pc' = "games" /\ out_rows' = out_rows /\ UNCHANGED <<season_i, games, game_i>>)

\* At the end of a run: every season of the range was requested once, in
\* order; no box page of a season whose page failed was requested; every link
\* of a season whose page came was requested once, in order, whatever failed
C5_AtEnd ==
    (fn = "scrape_range" /\ pc = "return") =>
        /\ [i \in 1..Len(Events("get_season")) |-> Events("get_season")[i].season]
               = years(arg.start_year, arg.end_year)
        /\ \A y \in FirstYear..LastYear :
              /\ EventsOf("season_fail", y) # <<>> => EventsOf("get_box", y) = <<>>
              /\ \A i \in 1..Len(EventsOf("season_ok", y)) :
                    [j \in 1..Len(EventsOf("get_box", y)) |-> EventsOf("get_box", y)[j].game]
                        = [j \in 1..EventsOf("season_ok", y)[i].links |-> j]

\* C5: a failing fetch of a season page skips that season and nothing else; a
\* failing fetch of a box page skips that game and nothing else; no failing
\* fetch ends the run.
C5_FailuresSkipOneUnit ==
    [](C5_AtEnd /\ (fn = "scrape_range" => pc # "raise")) /\ [][C5_FailureStep]_vars

\* C5 witness: a run whose first season page failed and which lost the first
\* box page of a later season has ended with a row of that later season
C5_Witness ==
    /\ fn = "scrape_range"
    /\ pc = "return"
    /\ Len(log) >= 2
    /\ log[2].ev = "season_fail"
    /\ \E i \in 1..Len(log) : \E j \in (i + 1)..Len(log) :
          /\ log[i].ev = "box_fail" /\ log[i].season > log[2].season /\ log[i].game = 1
          /\ log[j].ev = "append" /\ log[j].season = log[i].season /\ log[j].game = 2
    /\ Len(out_rows) = 1

---------------------------------------------------------------------------
(* C6 *)

C6_WrittenOnce ==
    fn = "scrape_range" =>
        /\ Len(Events("write")) <= 1
        /\ (out_file # None) <=> (Len(Events("write")) = 1)
        /\ pc = "return" => out_file # None
        /\ out_file # None =>
              /\ log[Len(log)].ev = "write"
              /\ season_i = Len(years(arg.start_year, arg.end_year))
              /\ Len(Events("get_season")) = Len(years(arg.start_year, arg.end_year))
              /\ Get(out_file).header = fieldnames
              /\ Len(Get(out_file).rows) = Len(out_rows)

\* C6: every run ends, whatever the range (an empty one included), the failing
\* fetches and the skipped pages; the file is written once, after the last
\* season, with the header and as many rows as were accumulated, be it none.
C6_TerminatesAndWritesOnce == <>(pc = "return") /\ [](C6_WrittenOnce)

\* C6 witness: a run over two seasons in which fetches failed has ended with
\* no row and has written the header alone
C6_Witness ==
    /\ fn = "scrape_range"
    /\ pc = "return"
    /\ arg.end_year > arg.start_year
    /\ Events("box_fail") # <<>>
    /\ Events("season_fail") # <<>>
    /\ out_rows = <<>>
    /\ out_file = Some([header |-> fieldnames, rows |-> <<>>])

---------------------------------------------------------------------------
(* C10 *)

\* C10: each request of a box page comes right after one delay of sleep_sec,
\* which comes after something that is no delay; no delay comes before the
\* request of a season page; there are as many delays as requests of box
\* pages (one more while the request that follows a delay is yet to be sent);
\* at most one request awaits its response.
C10_DelayBeforeBoxFetch ==
    fn = "scrape_range" =>
        /\ \A k \in 1..Len(log) :
              /\ log[k].ev = "get_box" =>
                    /\ k > 1
                    /\ log[k - 1].ev = "sleep"
                    /\ log[k - 1].secs = arg.sleep_sec
                    /\ k > 2 => log[k - 2].ev \notin {"sleep", "get_box", "get_season"}
              /\ log[k].ev = "get_season" => (k > 1 => log[k - 1].ev # "sleep")
              /\ log[k].ev = "sleep" => (k < Len(log) => log[k + 1].ev = "get_box")
        /\ Len(Events("sleep")) =
               Len(Events("get_box")) + (IF pc = "box_request" THEN 1 ELSE 0)
        /\ Len(in_flight) <= 1
        /\ Len(in_flight) = 1 <=> pc \in {"season_fetch", "box_fetch"}

\* C10 witness: a run over two seasons has ended after two requests of season
\* pages and four requests of box pages, one of which failed, and four delays
C10_Witness ==
    /\ fn = "scrape_range"
    /\ pc = "return"
    /\ Len(Events("get_season")) = 2
    /\ Len(Events("get_box")) = 4
    /\ Len(Events("sleep")) = 4
    /\ Len(Events("box_fail")) = 1
    /\ in_flight = <<>>

---------------------------------------------------------------------------
(* C11 *)

\* The season label of a year, written out digit by digit
LabelOf(y) ==
    LET d(n) == <<DigitChars[((n \div 1000) % 10) + 1], DigitChars[((n \div 100) % 10) + 1],
                  DigitChars[((n \div 10) % 10) + 1], DigitChars[(n % 10) + 1]>>
    IN d(y) \o <<"-">> \o d(y + 1)

\* Row k is of the season and of the link its log entry tells; the rows are in
\* ascending order of season and, within a season, of the place of their link
\* on the season page; the written rows are the accumulated rows, in order
C11_Ordered ==
    fn = "scrape_range" =>
        /\ Len(RowSources) = Len(out_rows)
        /\ \A k \in 1..Len(out_rows) :
              /\ RowSources[k].season \in arg.start_year..arg.end_year
              /\ out_rows[k].season = LabelOf(RowSources[k].season)
        /\ \A k \in 1..Len(out_rows) : \A l \in (k + 1)..Len(out_rows) :
              \/ RowSources[k].season < RowSources[l].season
              \/ /\ RowSources[k].season = RowSources[l].season
                 /\ RowSources[k].game < RowSources[l].game
        /\ out_file # None =>
              /\ Len(Get(out_file).rows) = Len(out_rows)
              /\ \A k \in 1..Len(out_rows) :
                    /\ Get(out_file).rows[k][1] = out_rows[k].season
                    /\ Get(out_file).rows[k][5] = out_rows[k].location_text
                    /\ Get(out_file).rows[k][6] = out_rows[k].result_text
                    /\ Get(out_file).rows[k][24] = out_rows[k].box_url

\* A step leaves the rows as they are or puts one row after them, the row of
\* the link the game loop is at
C11_AppendOnly ==
    \/ out_rows' = out_rows
    \/ /\ Len(out_rows') = Len(out_rows) + 1
       /\ SubSeq(out_rows', 1, Len(out_rows)) = out_rows
       /\ out_rows'[Len(out_rows')].location_text = games[game_i][2]
       /\ out_rows'[Len(out_rows')].result_text = games[game_i][3]
       /\ out_rows'[Len(out_rows')].box_url = games[game_i][4]

\* C11: the rows are in ascending order of the seasons of the range and, within
\* a season, in the document order of the links of its page, whatever was
\* skipped; a row once appended is never moved, changed or removed, and the
\* rows are written in that order.
C11_RowsInOrder == [](C11_Ordered) /\ [][C11_AppendOnly]_vars

\* C11 witness: a run over two seasons that lost a box page and skipped another
\* has written two rows, the first of the first season and the second of the
\* second link of the second season
C11_Witness ==
    /\ fn = "scrape_range"
    /\ pc = "return"
    /\ Events("box_fail") # <<>>
    /\ Events("skip") # <<>>
    /\ Len(out_rows) = 2
    /\ out_rows[1].season = <<"2","0","1","2","-","2","0","1","3">>
    /\ out_rows[2].season = <<"2","0","1","3","-","2","0","1","4">>
    /\ RowSources[2].game = 2
    /\ Get(out_file).rows[1][1] = <<"2","0","1","2","-","2","0","1","3">>
    /\ Get(out_file).rows[2][1] = <<"2","0","1","3","-","2","0","1","4">>

---------------------------------------------------------------------------
(* C12 *)

\* The counts an empty cell may stand for: the least one and one above every
\* count of the tables
CompletionValues == {0, 1000}
ValuesOf(cell) == IF cell = <<>> THEN CompletionValues ELSE {DigitsValue(cell)}

\* The rules on a raw row; with an empty cell a rule holds when it holds
\* whatever count the cell stands for
WinRule(r) == \A x \in ValuesOf(r.cnu_pts), y \in ValuesOf(r.opp_pts) : x > y
ReboundRule(r) == \A x \in ValuesOf(r.cnu_trb), y \in ValuesOf(r.opp_trb) : x > y
TurnoverRule(r) == \A x \in ValuesOf(r.cnu_to), y \in ValuesOf(r.opp_to) : x < y
OffensiveReboundRule(r) ==
    \A orb \in ValuesOf(r.cnu_orb), fga \in ValuesOf(r.cnu_fga), fgm \in ValuesOf(r.cnu_fgm) :
        10 * orb >= 4 * (fga - fgm)
Defense30Rule(r) == \A x \in ValuesOf(r.opp_first_half) : x < 30

Flag(b) == IF b THEN <<"1">> ELSE <<"0">>

C12_Derived(raw, out) ==
    /\ out.win = Flag(WinRule(raw))
    /\ out.goal_reb = Flag(ReboundRule(raw))
    /\ out.goal_to = Flag(TurnoverRule(raw))
    /\ out.goal_orb = Flag(OffensiveReboundRule(raw))
    /\ out.goal_def30 = Flag(Defense30Rule(raw))
    /\ DigitsValue(out.goals_hit) \in 0..4
    /\ DigitsValue(out.goals_hit) =
          DigitsValue(out.goal_reb) + DigitsValue(out.goal_to)
          + DigitsValue(out.goal_orb) + DigitsValue(out.goal_def30)
    /\ out.goals_hit = str_(DigitsValue(out.goals_hit))

C12_Predicted(rows, report) ==
    LET hit(i) == DigitsValue(rows[i].goals_hit) >= 3
        won(i) == rows[i].win = <<"1">>
        n(P(_)) == Cardinality({i \in 1..Len(rows) : P(i)})
        TP(i) == hit(i) /\ won(i)
        FP(i) == hit(i) /\ ~won(i)
        TN(i) == ~hit(i) /\ ~won(i)
        FN(i) == ~hit(i) /\ won(i)
    IN /\ Len(report.pred_win) = Len(rows)
       /\ \A i \in 1..Len(rows) : report.pred_win[i] = IF hit(i) THEN 1 ELSE 0
       /\ report.tp = n(TP) /\ report.fp = n(FP) /\ report.tn = n(TN) /\ report.fn = n(FN)

---------------------------------------------------------------------------
(* C13 *)

\* One side of a parsed box page
SideOf(p, side) ==
    IF side = "home"
    THEN [name |-> p.home_name, pts |-> p.home_pts, first_half |-> p.home_first_half,
          totals |-> p.home_totals]
    ELSE [name |-> p.away_name, pts |-> p.away_pts, first_half |-> p.away_first_half,
          totals |-> p.away_totals]

\* A field of a side's totals, unset when the side has none
TotalsField(side, key) == IF side.totals = None THEN None ELSE Get(side.totals)[key]

\* "OT" occurs in a text, in either case of either letter
HasOT(text) ==
    \E i \in 1..(Len(text) - 1) : text[i] \in {"O", "o"} /\ text[i + 1] \in {"T", "t"}

\* Row r of the page p is written from the side of the tracked team, the home
\* side when the home name holds a variant
C13_Row(r, p) ==
    LET home == HasVariant(p.home_name)
        own == SideOf(p, IF home THEN "home" ELSE "away")
        other == SideOf(p, IF home THEN "away" ELSE "home")
    IN /\ r.home = (IF home THEN 1 ELSE 0)
       /\ r.cnu_pts = own.pts /\ r.cnu_first_half = own.first_half
       /\ r.cnu_fgm = TotalsField(own, "fgm") /\ r.cnu_fga = TotalsField(own, "fga")
       /\ r.cnu_orb = TotalsField(own, "orb") /\ r.cnu_drb = TotalsField(own, "drb")
       /\ r.cnu_trb = TotalsField(own, "trb") /\ r.cnu_to = TotalsField(own, "to")
       /\ r.opponent = other.name
       /\ r.opp_pts = other.pts /\ r.opp_first_half = other.first_half
       /\ r.opp_fgm = TotalsField(other, "fgm") /\ r.opp_fga = TotalsField(other, "fga")
       /\ r.opp_orb = TotalsField(other, "orb") /\ r.opp_drb = TotalsField(other, "drb")
       /\ r.opp_trb = TotalsField(other, "trb") /\ r.opp_to = TotalsField(other, "to")
       /\ r.ot = (IF HasOT(r.result_text) \/ HasOT(r.location_text) THEN 1 ELSE 0)

\* Result and location texts with "OT" in both cases, apart and reversed
OvertimeTexts ==
    {<<>>, <<"W"," ","7","0","-","6","5">>, <<"L"," ","7","8","-","8","0"," ","(","O","T",")">>, <<"W"," ","9","1","-","8","8"," ","2","o","t">>, <<"a","t"," ","C","h","a","r","l","o","t","t","e">>, <<"O","t">>, <<"o","T">>,
     <<"O"," ","T">>, <<"T","O">>, <<"o">>}

\* Line 242 on every pair of these texts
C13_OvertimeTexts ==
    \A result_text \in OvertimeTexts, location_text \in OvertimeTexts :
        ot_flag(result_text, location_text)
            = (IF HasOT(result_text) \/ HasOT(location_text) THEN 1 ELSE 0)

\* C13: every row has the home flag 1 iff the home name of its box page holds
\* a tracked variant; its tracked-team points, first half and totals are those
\* of that one side of the page and its opponent name, points, first half and
\* totals those of the other side; its overtime flag is 1 iff "OT" occurs, in
\* any case, in its result text or its location text.
C13_ConsistentPerspective ==
    /\ C13_OvertimeTexts
    /\ fn = "scrape_range" =>
          /\ Len(RowSources) = Len(out_rows)
          /\ \A k \in 1..Len(out_rows) :
                C13_Row(out_rows[k], Get(ParsedPages[RowSources[k].page].val))

\* C13 witness: a run has written a row of the page whose two names both hold
\* a variant, taken from the home side, and a row of a page with the tracked
\* team as visitors; one row is of a game that went to overtime and one is not
C13_Witness ==
    /\ fn = "scrape_range"
    /\ pc = "return"
    /\ \E k \in 1..Len(out_rows) :
          LET p == Get(ParsedPages[RowSources[k].page].val)
          IN /\ HasVariant(p.home_name) /\ HasVariant(p.away_name)
             /\ out_rows[k].home = 1
             /\ out_rows[k].opponent = p.away_name
             /\ out_rows[k].cnu_pts = p.home_pts
    /\ \E k \in 1..Len(out_rows) :
          LET p == Get(ParsedPages[RowSources[k].page].val)
          IN /\ ~HasVariant(p.home_name)
             /\ out_rows[k].home = 0
             /\ out_rows[k].opponent = p.home_name
             /\ out_rows[k].cnu_pts = p.away_pts /\ out_rows[k].cnu_pts # None
             /\ out_rows[k].opp_pts = p.home_pts /\ out_rows[k].opp_pts # out_rows[k].cnu_pts
             /\ out_rows[k].cnu_trb # None
    /\ \E k \in 1..Len(out_rows) : out_rows[k].ot = 1
    /\ \E k \in 1..Len(out_rows) : out_rows[k].ot = 0

====
